---------------------------- MODULE Spec2Model ----------------------------
(***************************************************************************)
(* A model of the chat orchestrator (services/chat_service.py) and of the  *)
(* upstream data gateway (bitscrunch/api_client.py).                       *)
(*                                                                         *)
(* Text is modelled as a sequence of one-character strings, so that the    *)
(* regular expressions, the keyword tests and the escape table work on     *)
(* characters as the Python code does.  A text fragment that the program   *)
(* itself supplies (a template default, the text of an interpreter error)  *)
(* is one element of more than one character; such an element is never a   *)
(* raw special character.                                                  *)
(***************************************************************************)
EXTENDS Naturals, Sequences, FiniteSets, TLC

-----------------------------------------------------------------------------
(* Characters and text                                                       *)

UpperChars == <<"A","B","C","D","E","F","G","H","I","J","K","L","M","N","O","P","Q","R","S","T","U","V","W","X","Y","Z">>
LowerChars == <<"a","b","c","d","e","f","g","h","i","j","k","l","m","n","o","p","q","r","s","t","u","v","w","x","y","z">>

Range(s) == { s[i] : i \in DOMAIN s }

UpperSet == Range(UpperChars)
LowerSet == Range(LowerChars)

IsUpper(c) == c \in UpperSet
IsLower(c) == c \in LowerSet

\* str.lower() on one character
LowerChar(c) ==
    IF IsUpper(c)
    THEN LowerChars[CHOOSE i \in DOMAIN UpperChars : UpperChars[i] = c]
    ELSE c

\* str.upper() on one character
UpperChar(c) ==
    IF IsLower(c)
    THEN UpperChars[CHOOSE i \in DOMAIN LowerChars : LowerChars[i] = c]
    ELSE c

\* str.lower()
Lower(s) == [ i \in DOMAIN s |-> LowerChar(s[i]) ]

\* the Python test `sub in s` on two strings
Contains(s, sub) ==
    \E i \in 1..(Len(s) + 1) :
        /\ i + Len(sub) - 1 <= Len(s)
        /\ \A j \in DOMAIN sub : s[i + j - 1] = sub[j]

\* the character class [a-fA-F0-9]
HexChars == {"0","1","2","3","4","5","6","7","8","9","a","b","c","d","e","f","A","B","C","D","E","F"}

\* the characters str.strip() removes
SpaceChars == {" ", "\t", "\n", "\r"}

\* the repetition count {40} of both address patterns
AddressHexDigits == 40

\* the absent value (Python's None) where a text is expected
None == <<"<None>">>

-----------------------------------------------------------------------------
(* Address extraction and validation                                         *)

\* the pattern 0x[a-fA-F0-9]{40} matches s at position i
AddressAt(s, i) ==
    /\ i + 1 + AddressHexDigits <= Len(s)
    /\ s[i] = "0"
    /\ s[i + 1] = "x"
    /\ \A k \in 2..(1 + AddressHexDigits) : s[i + k] \in HexChars

\* a search that returns the rightmost match
ExtractWalletAddress_Last(message) ==
    IF \E i \in DOMAIN message : AddressAt(message, i)
    THEN LET last == CHOOSE i \in DOMAIN message :
                         /\ AddressAt(message, i)
                         /\ \A j \in (i + 1)..Len(message) : ~AddressAt(message, j)
         IN  SubSeq(message, last, last + 1 + AddressHexDigits)
    ELSE None

\* the pattern 0x[a-fA-F0-9]{40}(?![a-fA-F0-9]): a match must not be
\* followed by one more hex digit
ExtractWalletAddress_Bounded(message) ==
    IF \E i \in DOMAIN message :
           /\ AddressAt(message, i)
           /\ i + 2 + AddressHexDigits > Len(message)
                  \/ message[i + 2 + AddressHexDigits] \notin HexChars
    THEN LET first == CHOOSE i \in DOMAIN message :
                          /\ AddressAt(message, i)
                          /\ i + 2 + AddressHexDigits > Len(message)
                                 \/ message[i + 2 + AddressHexDigits] \notin HexChars
                          /\ \A j \in 1..(i - 1) :
                                 ~(/\ AddressAt(message, j)
                                   /\ j + 2 + AddressHexDigits > Len(message)
                                          \/ message[j + 2 + AddressHexDigits] \notin HexChars)
         IN  SubSeq(message, first, first + 1 + AddressHexDigits)
    ELSE None

\* the pattern 0x[a-fA-F0-9]{40,}: the leftmost match with every hex digit
\* that follows its first forty
ExtractWalletAddress_Greedy(message) ==
    IF \E i \in DOMAIN message : AddressAt(message, i)
    THEN LET first == CHOOSE i \in DOMAIN message :
                          /\ AddressAt(message, i)
                          /\ \A j \in 1..(i - 1) : ~AddressAt(message, j)
             last  == CHOOSE j \in (first + 1 + AddressHexDigits)..Len(message) :
                          /\ \A k \in (first + 2)..j : message[k] \in HexChars
                          /\ j = Len(message) \/ message[j + 1] \notin HexChars
         IN  SubSeq(message, first, last)
    ELSE None

\* re.search: the leftmost match, or None
ExtractWalletAddress(message) ==
    IF \E i \in DOMAIN message : AddressAt(message, i)
    THEN LET first == CHOOSE i \in DOMAIN message :
                          /\ AddressAt(message, i)
                          /\ \A j \in 1..(i - 1) : ~AddressAt(message, j)
         IN  SubSeq(message, first, first + 1 + AddressHexDigits)
    ELSE None

\* str.strip()
RECURSIVE LStrip(_)
LStrip(s) == IF s # <<>> /\ Head(s) \in SpaceChars THEN LStrip(Tail(s)) ELSE s

RECURSIVE RStrip(_)
RStrip(s) ==
    IF s # <<>> /\ s[Len(s)] \in SpaceChars THEN RStrip(SubSeq(s, 1, Len(s) - 1)) ELSE s

Strip(s) == RStrip(LStrip(s))

\* the pattern searched for anywhere in the text
MatchesEthPattern_Unanchored(s) == \E i \in DOMAIN s : AddressAt(s, i)

\* re.match(r'^0x[a-fA-F0-9]{40}$', s): anchored at the start; `$` matches at
\* the end of the text or just before one final newline
MatchesEthPattern(s) ==
    /\ AddressAt(s, 1)
    /\ \/ Len(s) = 2 + AddressHexDigits
       \/ Len(s) = 3 + AddressHexDigits /\ s[Len(s)] = "\n"

IsValidWalletAddress(address) ==
    IF address = None \/ address = <<>>
    THEN FALSE
    ELSE MatchesEthPattern(Strip(address))

-----------------------------------------------------------------------------
(* Intent classification                                                     *)

TokenKeywords ==
    << <<"a","n","a","l","y","z","e">>,
       <<"s","h","o","w"," ","a","l","l"," ","t","o","k","e","n","s">>,
       <<"t","o","k","e","n">>,
       <<"b","a","l","a","n","c","e">> >>
NftKeywords ==
    << <<"n","f","t">>,
       <<"c","o","l","l","e","c","t","i","o","n">>,
       <<"s","h","o","w"," ","n","f","t">> >>
TransactionKeywords ==
    << <<"h","i","s","t","o","r","y">>,
       <<"t","r","a","n","s","a","c","t","i","o","n">>,
       <<"t","x">> >>
RiskKeywords ==
    << <<"r","i","s","k">>,
       <<"s","e","c","u","r","i","t","y">>,
       <<"c","h","e","c","k"," ","r","i","s","k","s">> >>
WhaleKeywords ==
    << <<"w","h","a","l","e">>,
       <<"a","n","a","l","y","z","e"," ","w","h","a","l","e">> >>
ContractKeywords ==
    << <<"v","e","r","i","f","y">>,
       <<"c","o","n","t","r","a","c","t">> >>

\* any(keyword in message_lower for keyword in keywords)
AnyKeyword(messageLower, keywords) ==
    \E k \in DOMAIN keywords : Contains(messageLower, keywords[k])

Intents == {"TokenAnalysis", "NftAnalysis", "TransactionHistory",
            "RiskAssessment", "WhaleAnalysis", "ContractVerification"}

\* the if/elif chain with the whale test moved to the front
ClassifyIntent_WhaleFirst(message) ==
    LET lower == Lower(message) IN
    IF AnyKeyword(lower, WhaleKeywords) THEN "WhaleAnalysis"
    ELSE IF AnyKeyword(lower, TokenKeywords) THEN "TokenAnalysis"
    ELSE IF AnyKeyword(lower, NftKeywords) THEN "NftAnalysis"
    ELSE IF AnyKeyword(lower, TransactionKeywords) THEN "TransactionHistory"
    ELSE IF AnyKeyword(lower, RiskKeywords) THEN "RiskAssessment"
    ELSE IF AnyKeyword(lower, ContractKeywords) THEN "ContractVerification"
    ELSE "TokenAnalysis"

\* the if/elif chain with the NFT test moved before the token test
ClassifyIntent_NftFirst(message) ==
    LET lower == Lower(message) IN
    IF AnyKeyword(lower, NftKeywords) THEN "NftAnalysis"
    ELSE IF AnyKeyword(lower, TokenKeywords) THEN "TokenAnalysis"
    ELSE IF AnyKeyword(lower, TransactionKeywords) THEN "TransactionHistory"
    ELSE IF AnyKeyword(lower, RiskKeywords) THEN "RiskAssessment"
    ELSE IF AnyKeyword(lower, WhaleKeywords) THEN "WhaleAnalysis"
    ELSE IF AnyKeyword(lower, ContractKeywords) THEN "ContractVerification"
    ELSE "TokenAnalysis"

\* the if/elif chain of _handle_wallet_query: the handler that runs
ClassifyIntent(message) ==
    LET lower == Lower(message) IN
    IF AnyKeyword(lower, TokenKeywords) THEN "TokenAnalysis"
    ELSE IF AnyKeyword(lower, NftKeywords) THEN "NftAnalysis"
    ELSE IF AnyKeyword(lower, TransactionKeywords) THEN "TransactionHistory"
    ELSE IF AnyKeyword(lower, RiskKeywords) THEN "RiskAssessment"
    ELSE IF AnyKeyword(lower, WhaleKeywords) THEN "WhaleAnalysis"
    ELSE IF AnyKeyword(lower, ContractKeywords) THEN "ContractVerification"
    ELSE "TokenAnalysis"

-----------------------------------------------------------------------------
(* Text formatting helpers of ChatService                                    *)

\* the five characters of html_escape_table
SpecialChars == {"&", "\"", "'", ">", "<"}

\* html_escape_table.get(c, c): an entity is one element, never a raw character
EscapeChar(c) ==
    CASE c = "&"  -> "&amp;"
      [] c = "\"" -> "&quot;"
      [] c = "'"  -> "&#x27;"
      [] c = ">"  -> "&gt;"
      [] c = "<"  -> "&lt;"
      [] OTHER    -> c

\* _escape_html leaving every character as it is
EscapeHtml_Identity(text) == IF text = None THEN <<>> ELSE text

\* _escape_html: "" for a falsy text, else the table applied to every character
EscapeHtml(text) ==
    IF text = None \/ text = <<>>
    THEN <<>>
    ELSE [ i \in DOMAIN text |-> EscapeChar(text[i]) ]

\* the default of _truncate_address's `length` parameter
TruncateLength == 8

\* _truncate_address
TruncateAddress(address) ==
    IF address = None \/ address = <<>> \/ Len(address) <= TruncateLength + 8
    THEN address
    ELSE SubSeq(address, 1, TruncateLength) \o <<".", ".", ".">>
             \o SubSeq(address, Len(address) - 3, Len(address))

\* str.title(): a letter that follows a letter is lower-cased, any other
\* letter is upper-cased
Title(s) ==
    [ i \in DOMAIN s |->
        IF i > 1 /\ (IsUpper(s[i - 1]) \/ IsLower(s[i - 1]))
        THEN LowerChar(s[i])
        ELSE UpperChar(s[i]) ]

\* content.replace('\n\n', '</p><p>')
RECURSIVE ReplaceParagraphs(_)
ReplaceParagraphs(s) ==
    IF s = <<>> THEN <<>>
    ELSE IF Len(s) >= 2 /\ s[1] = "\n" /\ s[2] = "\n"
         THEN <<"</p><p>">> \o ReplaceParagraphs(SubSeq(s, 3, Len(s)))
         ELSE <<s[1]>> \o ReplaceParagraphs(Tail(s))

\* .replace('\n', '<br>')
ReplaceBreaks(s) == [ i \in DOMAIN s |-> IF s[i] = "\n" THEN "<br>" ELSE s[i] ]

StarsAt(s, i, n) == /\ i + n - 1 <= Len(s)
                    /\ \A k \in 0..(n - 1) : s[i + k] = "*"

\* re.sub(stars (.*?) stars, open \1 close, s) for a delimiter of n stars:
\* leftmost opening delimiter, nearest closing one, then the rest of the text
RECURSIVE SubDelimited(_, _, _, _)
SubDelimited(s, n, open, close) ==
    IF \E i \in DOMAIN s :
           /\ StarsAt(s, i, n)
           /\ \E j \in (i + n)..Len(s) : StarsAt(s, j, n)
    THEN LET i == CHOOSE a \in DOMAIN s :
                      /\ StarsAt(s, a, n)
                      /\ \E j \in (a + n)..Len(s) : StarsAt(s, j, n)
                      /\ \A b \in 1..(a - 1) :
                             ~(/\ StarsAt(s, b, n)
                               /\ \E j \in (b + n)..Len(s) : StarsAt(s, j, n))
             j == CHOOSE a \in (i + n)..Len(s) :
                      /\ StarsAt(s, a, n)
                      /\ \A b \in (i + n)..(a - 1) : ~StarsAt(s, b, n)
         IN  SubSeq(s, 1, i - 1) \o <<open>> \o SubSeq(s, i + n, j - 1) \o <<close>>
                 \o SubDelimited(SubSeq(s, j + n, Len(s)), n, open, close)
    ELSE s

\* _format_text_content; a None content has no replace method
FormatTextContent(content) ==
    LET paragraphs == <<"<p>">> \o ReplaceBreaks(ReplaceParagraphs(content)) \o <<"</p>">>
        bold       == SubDelimited(paragraphs, 2, "<strong>", "</strong>")
    IN  SubDelimited(bold, 1, "<em>", "</em>")

-----------------------------------------------------------------------------
(* JSON values, Python values and exceptions                                 *)

\* A decoded JSON value: t is its Python type, v its content.
JNull    == [t |-> "null"]
JNum(n)  == [t |-> "num", v |-> n]
JBool(b) == [t |-> "bool", v |-> b]
JStr(s)  == [t |-> "str", v |-> s]
JList(l) == [t |-> "list", v |-> l]
JDict(f) == [t |-> "dict", v |-> f]

\* the text of the keys the gateway probes for
KeyText == [data         |-> <<"d","a","t","a">>,
            nfts         |-> <<"n","f","t","s">>,
            tokens       |-> <<"t","o","k","e","n","s">>,
            transactions |-> <<"t","r","a","n","s","a","c","t","i","o","n","s">>]

\* an exception: its class and str(e)
Exc(type, msg) == [type |-> type, msg |-> msg]

\* the result of evaluating a piece of code: a value, or an exception raised
Return(value) == [raised |-> FALSE, value |-> value]
Raise(exc)    == [raised |-> TRUE, exc |-> exc]

TypeError      == Exc("TypeError", <<"[TypeError]">>)
AttributeError == Exc("AttributeError", <<"[AttributeError]">>)
IndexError     == Exc("IndexError", <<"[IndexError]">>)

\* `key in j` raises TypeError on a value that is not a container
InRaises(j) == j.t \in {"null", "num", "bool"}

\* `key in j`, for a container j: key of a dict, element of a list, substring
\* of a str
In(key, j) ==
    CASE j.t = "dict" -> key \in DOMAIN j.v
      [] j.t = "list" -> \E i \in DOMAIN j.v : j.v[i] = JStr(KeyText[key])
      [] j.t = "str"  -> Contains(j.v, KeyText[key])

\* isinstance(j, list), isinstance(j, dict)
IsList(j) == j.t = "list"
IsDict(j) == j.t = "dict"

\* len(j) raises TypeError on a value that has no length
LenRaises(j) == j.t \in {"null", "num", "bool"}

\* len(j), for a sized j
PyLen(j) == IF j.t = "dict" THEN Cardinality(DOMAIN j.v) ELSE Len(j.v)

\* the truth value of j (`if not nfts`, `if token.token_name`)
Truthy(j) ==
    CASE j.t = "null" -> FALSE
      [] j.t = "num"  -> j.v # 0
      [] j.t = "bool" -> j.v
      [] j.t = "dict" -> DOMAIN j.v # {}
      [] OTHER        -> j.v # <<>>

\* str(j) as an f-string embeds it; a number or a container shows no special
\* character of its own and is one element
Str(j) ==
    CASE j.t = "str"  -> j.v
      [] j.t = "null" -> <<"N","o","n","e">>
      [] OTHER        -> <<"[repr]">>

-----------------------------------------------------------------------------
(* bitscrunch/schemas.py                                                     *)

StrFields(j, names) ==
    /\ IsDict(j)
    /\ \A n \in names : n \in DOMAIN j.v /\ j.v[n].t = "str"

NumFields(j, names) ==
    /\ IsDict(j)
    /\ \A n \in names : n \in DOMAIN j.v /\ j.v[n].t = "num"

\* TokenBalance: seven required fields
ValidTokenBalance(j) ==
    /\ StrFields(j, {"blockchain", "token_address", "token_name", "token_symbol"})
    /\ NumFields(j, {"chain_id", "decimal", "quantity"})

\* Pagination: four required fields
ValidPagination(j) ==
    /\ NumFields(j, {"total_items", "offset", "limit"})
    /\ "has_next" \in DOMAIN j.v
    /\ j.v["has_next"].t = "bool"

ValidationError == Exc("ValidationError", <<"[ValidationError]">>)

\* WalletBalanceResponse(**kwargs): both fields are required, keywords the
\* model does not declare are ignored
WalletBalanceResponse(kwargs) ==
    IF /\ "token" \in DOMAIN kwargs
       /\ IsList(kwargs["token"])
       /\ \A i \in DOMAIN kwargs["token"].v : ValidTokenBalance(kwargs["token"].v[i])
       /\ "pagination" \in DOMAIN kwargs
       /\ ValidPagination(kwargs["pagination"])
    THEN Return([token |-> [ i \in DOMAIN kwargs["token"].v |->
                     [blockchain    |-> kwargs["token"].v[i].v["blockchain"].v,
                      token_address |-> kwargs["token"].v[i].v["token_address"].v,
                      token_name    |-> kwargs["token"].v[i].v["token_name"].v,
                      token_symbol  |-> kwargs["token"].v[i].v["token_symbol"].v] ],
                 pagination |-> kwargs["pagination"]])
    ELSE Raise(ValidationError)

-----------------------------------------------------------------------------
(* The HTTP layer as the gateway sees it                                     *)

\* what requests.get does with one request: it raises a RequestException
\* (connection error, timeout) or returns a response with a status and a body
ConnectionError == [kind |-> "connection_error"]
Timeout         == [kind |-> "timeout"]
Response(status, body) == [kind |-> "response", status |-> status, body |-> body]

\* a response body: JSON text of a value, or text that is not JSON
JsonBody(j) == [json |-> TRUE, value |-> j]
NotJson     == [json |-> FALSE]

\* the timeout the multi-endpoint operations pass to requests.get
GatewayTimeout == 10

\* one requests.get call: the URL (base URL left out) and the timeout
\* argument, <<>> when the call passes none
Request(url, timeout) == [url |-> url, timeout |-> timeout]

BalanceEndpoints == << "/wallet/balance/token" >>
NftEndpoints == << "/wallet/nft", "/wallet/nfts",
                   "/nft/wallet/{address}", "/wallet/{address}/nfts" >>
TransactionEndpoints == << "/wallet/transactions", "/wallet/history",
                           "/transactions/{address}", "/wallet/{address}/transactions" >>
RiskEndpoints == << "/wallet/risk", "/security/{address}", "/wallet/{address}/risk" >>
WhaleEndpoints == << "/wallet/whale", "/analytics/{address}", "/wallet/{address}/analytics" >>
ContractEndpoints == << "/contract/verify", "/security/contract/{address}",
                        "/contract/{address}/verify" >>

GatewayOps == {"get_wallet_balance", "get_nft_holdings", "get_transaction_history",
               "get_risk_assessment", "get_whale_analysis", "verify_contract"}

MultiEndpointOps == GatewayOps \ {"get_wallet_balance"}

\* endpoints_to_try of each operation
EndpointsToTry(o) ==
    CASE o = "get_wallet_balance"      -> BalanceEndpoints
      [] o = "get_nft_holdings"        -> NftEndpoints
      [] o = "get_transaction_history" -> TransactionEndpoints
      [] o = "get_risk_assessment"     -> RiskEndpoints
      [] o = "get_whale_analysis"      -> WhaleEndpoints
      [] o = "verify_contract"         -> ContractEndpoints

\* the requests.get call an operation makes for its k-th candidate
RequestOf(o, k) ==
    IF o = "get_wallet_balance"
    THEN Request(EndpointsToTry(o)[k], <<>>)
    ELSE Request(EndpointsToTry(o)[k], <<GatewayTimeout>>)

\* response.raise_for_status() raises HTTPError for a 4xx or 5xx status
RaiseForStatusRaises(status) == status >= 400 /\ status < 600

-----------------------------------------------------------------------------
(* BitsCrunchAPIClient                                                       *)

\* the keyword arguments of the constructor call in get_wallet_balance's
\* except branch: WalletBalanceResponse(data=[], total_count=0)
BalanceFallbackKwargs == [data |-> JList(<<>>), total_count |-> JNum(0)]

\* get_wallet_balance: the try body on a response; HTTPError, a body that is
\* not JSON, a body that is no mapping and a failed validation all raise
BalanceTry(outcome) ==
    IF outcome.kind # "response" THEN Raise(Exc("RequestException", <<"[RequestException]">>))
    ELSE IF RaiseForStatusRaises(outcome.status) THEN Raise(Exc("HTTPError", <<"[HTTPError]">>))
    ELSE IF ~outcome.body.json THEN Raise(Exc("JSONDecodeError", <<"[JSONDecodeError]">>))
    ELSE IF ~IsDict(outcome.body.value) THEN Raise(TypeError)
    ELSE WalletBalanceResponse(outcome.body.value.v)

\* get_wallet_balance: whatever the try body raises is logged, and the except
\* branch returns what the constructor call in it evaluates to
GetWalletBalance(outcome) ==
    IF BalanceTry(outcome).raised
    THEN WalletBalanceResponse(BalanceFallbackKwargs)
    ELSE BalanceTry(outcome)

\* get_nft_holdings: the extraction of the item list from a decoded body
ExtractNfts(data) ==
    IF InRaises(data) THEN Raise(TypeError)
    ELSE IF In("data", data)
    THEN IF ~IsDict(data) THEN Raise(TypeError)
         ELSE IF IsList(data.v["data"]) THEN Return(data.v["data"])
         ELSE IF IsDict(data.v["data"]) /\ "nfts" \in DOMAIN data.v["data"].v
              THEN Return(data.v["data"].v["nfts"])
         ELSE IF IsDict(data.v["data"]) /\ "tokens" \in DOMAIN data.v["data"].v
              THEN Return(data.v["data"].v["tokens"])
         ELSE Return(JList(<<>>))
    ELSE IF In("nfts", data)
    THEN IF ~IsDict(data) THEN Raise(TypeError) ELSE Return(data.v["nfts"])
    ELSE IF IsList(data) THEN Return(data)
    ELSE Return(JList(<<>>))

\* get_transaction_history: the extraction of the item list
ExtractTransactions(data) ==
    IF InRaises(data) THEN Raise(TypeError)
    ELSE IF In("data", data)
    THEN IF ~IsDict(data) THEN Raise(TypeError)
         ELSE IF IsList(data.v["data"]) THEN Return(data.v["data"])
         ELSE IF IsDict(data.v["data"]) /\ "transactions" \in DOMAIN data.v["data"].v
              THEN Return(data.v["data"].v["transactions"])
         ELSE Return(JList(<<>>))
    ELSE IF In("transactions", data)
    THEN IF ~IsDict(data) THEN Raise(TypeError) ELSE Return(data.v["transactions"])
    ELSE IF IsList(data) THEN Return(data)
    ELSE Return(JList(<<>>))

\* the dict get_nft_holdings returns
NftResult(nfts, count, address) ==
    [nfts |-> nfts, total_count |-> count, address |-> address]

\* the dict get_transaction_history returns
TransactionResult(transactions, count, address) ==
    [transactions |-> transactions, total_count |-> count, address |-> address]

\* the two list operations taking total_count from the decoded body
\* instead of the extracted item list
On200_CountsBody(o, data, address) ==
    CASE o = "get_nft_holdings" ->
           IF ExtractNfts(data).raised THEN ExtractNfts(data)
           ELSE IF LenRaises(ExtractNfts(data).value) THEN Raise(TypeError)
           ELSE Return(NftResult(ExtractNfts(data).value, PyLen(data), address))
      [] o = "get_transaction_history" ->
           IF ExtractTransactions(data).raised THEN ExtractTransactions(data)
           ELSE IF LenRaises(ExtractTransactions(data).value) THEN Raise(TypeError)
           ELSE Return(TransactionResult(ExtractTransactions(data).value,
                                         PyLen(data), address))
      [] OTHER -> Return(data)

\* what an operation does with the decoded body of a 200 response
On200(o, data, address) ==
    CASE o = "get_nft_holdings" ->
           IF ExtractNfts(data).raised THEN ExtractNfts(data)
           ELSE IF LenRaises(ExtractNfts(data).value) THEN Raise(TypeError)
           ELSE Return(NftResult(ExtractNfts(data).value,
                                 PyLen(ExtractNfts(data).value), address))
      [] o = "get_transaction_history" ->
           IF ExtractTransactions(data).raised THEN ExtractTransactions(data)
           ELSE IF LenRaises(ExtractTransactions(data).value) THEN Raise(TypeError)
           ELSE Return(TransactionResult(ExtractTransactions(data).value,
                                         PyLen(ExtractTransactions(data).value), address))
      [] OTHER -> Return(data)

\* the value returned after the loop, when no candidate returned
LoopFallback(o, address) ==
    CASE o = "get_nft_holdings" -> NftResult(JList(<<>>), 0, address)
      [] o = "get_transaction_history" -> TransactionResult(JList(<<>>), 0, address)
      [] o = "get_risk_assessment" ->
           JDict([overall_risk_score |-> JNum(1),
                  risk_level |-> JStr(<<"L","o","w">>),
                  factors |-> JList(<< JDict([
                      name |-> JStr(<<"API Analysis Unavailable">>),
                      risk_level |-> JNum(1),
                      description |-> JStr(<<"Unable to fetch detailed risk analysis from API">>)]) >>)])
      [] o = "get_whale_analysis" ->
           JDict([total_value |-> JNum(0), diversity_score |-> JNum(0),
                  activity_level |-> JStr(<<"Unknown">>), is_whale |-> JBool(FALSE)])
      [] o = "verify_contract" ->
           JDict([status |-> JStr(<<"Unknown">>), verified |-> JBool(FALSE),
                  audit_status |-> JStr(<<"Not Available">>)])

\* the value returned by the outer `except Exception` branch
OuterFallback(o, address) ==
    CASE o = "get_nft_holdings" -> NftResult(JList(<<>>), 0, address)
      [] o = "get_transaction_history" -> TransactionResult(JList(<<>>), 0, address)
      [] o = "get_risk_assessment" ->
           JDict([overall_risk_score |-> JNum(0), risk_level |-> JStr(<<"Unknown">>),
                  factors |-> JList(<<>>)])
      [] o = "get_whale_analysis" ->
           JDict([total_value |-> JNum(0), diversity_score |-> JNum(0),
                  activity_level |-> JStr(<<"Unknown">>), is_whale |-> JBool(FALSE)])
      [] o = "verify_contract" ->
           JDict([status |-> JStr(<<"Error">>), verified |-> JBool(FALSE),
                  audit_status |-> JStr(<<"Error">>)])

\* the candidate loop of the two list operations going on to the next
\* candidate when a 200 answer yields no item
CandidateStep_SkipsEmpty(o, address, k, outcome, jsonErrIsRequestException) ==
    LET next == IF k < Len(EndpointsToTry(o))
                THEN [act |-> "next"]
                ELSE [act |-> "return", result |-> Return(LoopFallback(o, address))]
    IN
    IF outcome.kind # "response" THEN next
    ELSE IF outcome.status # 200 THEN next
    ELSE IF ~outcome.body.json
         THEN IF jsonErrIsRequestException
              THEN next
              ELSE [act |-> "return", result |-> Return(OuterFallback(o, address))]
    ELSE IF On200(o, outcome.body.value, address).raised
         THEN [act |-> "return", result |-> Return(OuterFallback(o, address))]
    ELSE IF /\ o \in {"get_nft_holdings", "get_transaction_history"}
            /\ On200(o, outcome.body.value, address).value.total_count = 0
         THEN next
    ELSE [act |-> "return", result |-> On200(o, outcome.body.value, address)]

\* the candidate loop giving up at the first status other than 200
CandidateStep_StopsOnBadStatus(o, address, k, outcome, jsonErrIsRequestException) ==
    IF outcome.kind # "response"
    THEN IF k < Len(EndpointsToTry(o))
         THEN [act |-> "next"]
         ELSE [act |-> "return", result |-> Return(LoopFallback(o, address))]
    ELSE IF outcome.status # 200 \/ ~outcome.body.json
         THEN [act |-> "return", result |-> Return(LoopFallback(o, address))]
    ELSE IF On200(o, outcome.body.value, address).raised
         THEN [act |-> "return", result |-> Return(OuterFallback(o, address))]
    ELSE [act |-> "return", result |-> On200(o, outcome.body.value, address)]

\* the candidate loop without the outer except branch: what the handling of
\* a response raises leaves the operation
CandidateStep_NoOuterExcept(o, address, k, outcome, jsonErrIsRequestException) ==
    LET next == IF k < Len(EndpointsToTry(o))
                THEN [act |-> "next"]
                ELSE [act |-> "return", result |-> Return(LoopFallback(o, address))]
    IN
    IF outcome.kind # "response" THEN next
    ELSE IF outcome.status # 200 THEN next
    ELSE IF ~outcome.body.json
         THEN IF jsonErrIsRequestException
              THEN next
              ELSE [act |-> "return", result |-> Raise(Exc("JSONDecodeError", <<"[JSONDecodeError]">>))]
    ELSE [act |-> "return", result |-> On200(o, outcome.body.value, address)]

\* one pass of the candidate loop of a multi-endpoint operation, on the
\* outcome of the request for candidate k: "next" goes on to candidate k + 1,
\* "return" ends the call.  response.json() raises JSONDecodeError on a body
\* that is not JSON; jsonErrIsRequestException tells whether the installed
\* requests library derives that class from RequestException (the inner except
\* branch catches it) or not (the outer one does).
CandidateStep(o, address, k, outcome, jsonErrIsRequestException) ==
    LET next == IF k < Len(EndpointsToTry(o))
                THEN [act |-> "next"]
                ELSE [act |-> "return", result |-> Return(LoopFallback(o, address))]
    IN
    IF outcome.kind # "response" THEN next
    ELSE IF outcome.status # 200 THEN next
    ELSE IF ~outcome.body.json
         THEN IF jsonErrIsRequestException
              THEN next
              ELSE [act |-> "return", result |-> Return(OuterFallback(o, address))]
    ELSE IF On200(o, outcome.body.value, address).raised
         THEN [act |-> "return", result |-> Return(OuterFallback(o, address))]
    ELSE [act |-> "return", result |-> On200(o, outcome.body.value, address)]

\* one request's outcome handled by the operation that issued it
GatewayStep(o, address, k, outcome, jsonErrIsRequestException) ==
    IF o = "get_wallet_balance"
    THEN [act |-> "return", result |-> GetWalletBalance(outcome)]
    ELSE CandidateStep(o, address, k, outcome, jsonErrIsRequestException)

-----------------------------------------------------------------------------
(* ChatService: documents and formatters                                     *)

\* A returned document {"html": ...}: the template that was rendered (kind)
\* and the values its placeholders received.  The quantity of a token card is
\* a formatted number and is left out.  Every return statement of ChatService
\* returns a dict literal with the one key "html": t is the Python type of
\* the returned value and keys are its keys.
Doc(kind, title, address, count, cards, text) ==
    [t |-> "dict", keys |-> {"html"},
     kind |-> kind, title |-> title, address |-> address,
     count |-> count, cards |-> cards, text |-> text]

\* an error rendered without a title and without the tip
FormatErrorMessage_Plain(title, detail) == Doc("chat-error", "", <<>>, 0, <<>>, detail)

\* _format_error_message(title, detail): the template with the title, the
\* detail and the tip to use a valid address
FormatErrorMessage(title, detail) == Doc("error", title, <<>>, 0, <<>>, detail)

\* the slice token.token_symbol[:20]
SymbolDisplayLength == 20

\* the slice nfts[:12]
NftDisplayCap == 12

Prefix(s, n) == SubSeq(s, 1, IF Len(s) < n THEN Len(s) ELSE n)

\* one token card of _format_real_wallet_analysis
TokenCard(token) ==
    [icon     |-> IF token.token_name # <<>>
                  THEN <<UpperChar(token.token_name[1])>> ELSE <<"?">>,
     name     |-> EscapeHtml(token.token_name),
     symbol   |-> EscapeHtml(Prefix(token.token_symbol, SymbolDisplayLength))
                      \o <<".", ".", ".">>,
     network  |-> IF token.blockchain # <<>>
                  THEN Title(token.blockchain) ELSE <<"Unknown">>,
     onclick  |-> token.token_address,
     contract |-> TruncateAddress(token.token_address)]

\* _format_real_wallet_analysis: a card for every token of the response
FormatRealWalletAnalysis(response, wallet_address, token_count) ==
    Doc("wallet-analysis", "", wallet_address, token_count,
        [ i \in DOMAIN response.token |-> TokenCard(response.token[i]) ], <<>>)

\* _handle_token_analysis, after get_wallet_balance has returned or raised
HandleTokenAnalysis(balance, wallet_address) ==
    IF balance.raised
    THEN FormatErrorMessage("Failed to fetch wallet data", balance.exc.msg)
    ELSE FormatRealWalletAnalysis(balance.value, wallet_address,
                                  Len(balance.value.token))

\* nft.get(key, default) embedded by an f-string
NftField(nft, key, default) ==
    IF key \in DOMAIN nft.v THEN Str(nft.v[key]) ELSE <<default>>

\* one NFT card of _handle_nft_analysis
NftCard(nft) ==
    [image      |-> NftField(nft, "image_url", "https://via.placeholder.com/300x300?text=NFT"),
     alt        |-> NftField(nft, "name", "NFT"),
     name       |-> NftField(nft, "name", "Unnamed NFT"),
     collection |-> NftField(nft, "collection_name", "Unknown"),
     token_id   |-> NftField(nft, "token_id", "N/A")]

\* the NFT handler rendering a card for every item it was given
HandleNftAnalysis_NoCap(nft_data, wallet_address) ==
    LET nfts == nft_data.nfts IN
    IF ~Truthy(nfts)
    THEN Doc("nft-empty", "", wallet_address, 0, <<>>, <<>>)
    ELSE IF IsList(nfts) /\ \A i \in DOMAIN nfts.v : IsDict(nfts.v[i])
    THEN Doc("nft", "", wallet_address, nft_data.total_count,
             [ i \in DOMAIN nfts.v |-> NftCard(nfts.v[i]) ], <<>>)
    ELSE FormatErrorMessage("Failed to fetch NFT data", AttributeError.msg)

\* _handle_nft_analysis, after get_nft_holdings has returned: the empty
\* document for a falsy item list; a dict cannot be sliced and an item that is
\* no dict has no get method, which the handler's except branch reports
HandleNftAnalysis(nft_data, wallet_address) ==
    LET nfts == nft_data.nfts IN
    IF ~Truthy(nfts)
    THEN Doc("nft-empty", "", wallet_address, 0, <<>>, <<>>)
    ELSE IF IsDict(nfts)
    THEN FormatErrorMessage("Failed to fetch NFT data", TypeError.msg)
    ELSE IF IsList(nfts) /\ \A i \in DOMAIN Prefix(nfts.v, NftDisplayCap) : IsDict(nfts.v[i])
    THEN Doc("nft", "", wallet_address, nft_data.total_count,
             [ i \in DOMAIN Prefix(nfts.v, NftDisplayCap) |-> NftCard(nfts.v[i]) ], <<>>)
    ELSE FormatErrorMessage("Failed to fetch NFT data", AttributeError.msg)

\* the transaction handler showing the first transaction it was given
HandleTransactionHistory_ShowsFirst(tx_data, wallet_address) ==
    Doc("transaction-history", "", wallet_address, PyLen(tx_data.transactions), <<>>,
        IF IsList(tx_data.transactions) /\ tx_data.transactions.v # <<>>
        THEN Str(tx_data.transactions.v[1].v["hash"]) ELSE <<>>)

\* _handle_transaction_history, after get_transaction_history has returned
HandleTransactionHistory(tx_data, wallet_address) ==
    Doc("transaction-history", "", wallet_address, PyLen(tx_data.transactions), <<>>, <<>>)

\* _handle_risk_assessment, _handle_whale_analysis,
\* _handle_contract_verification: one fixed template each
HandleRiskAssessment(wallet_address) ==
    Doc("risk-assessment", "", wallet_address, 0, <<>>, <<>>)

HandleWhaleAnalysis(wallet_address) ==
    Doc("whale-analysis", "", wallet_address, 0, <<>>, <<>>)

HandleContractVerification(wallet_address) ==
    Doc("contract-verification", "", wallet_address, 0, <<>>, <<>>)

\* the completion provider's answer to one chat.completions.create call: an
\* exception with its message, or a completion with a list of choices, each
\* the content of one message (None when the message has none)
CompletionError(msg) == [kind |-> "error", msg |-> msg]
Completion(choices)  == [kind |-> "completion", choices |-> choices]

\* _handle_general_query without its except branch: what the call raises is
\* reported by generate_response's except branch
HandleGeneralQuery_NoExcept(outcome) ==
    IF outcome.kind = "error"
    THEN FormatErrorMessage("Error Processing Request", outcome.msg)
    ELSE IF outcome.choices = <<>>
    THEN FormatErrorMessage("Error Processing Request", IndexError.msg)
    ELSE IF outcome.choices[1] = None
    THEN FormatErrorMessage("Error Processing Request", AttributeError.msg)
    ELSE Doc("general-response", "", <<>>, 0, <<>>, FormatTextContent(outcome.choices[1]))

\* _handle_general_query, after the completion call has returned or raised:
\* choices[0] of an empty list and the replace method of a None content raise
\* inside the same try block
HandleGeneralQuery(outcome) ==
    IF outcome.kind = "error"
    THEN FormatErrorMessage("Failed to process your request", outcome.msg)
    ELSE IF outcome.choices = <<>>
    THEN FormatErrorMessage("Failed to process your request", IndexError.msg)
    ELSE IF outcome.choices[1] = None
    THEN FormatErrorMessage("Failed to process your request", AttributeError.msg)
    ELSE Doc("general-response", "", <<>>, 0, <<>>, FormatTextContent(outcome.choices[1]))

\* the model name and the system prompt of the completion call
CurrentModel == "llama3-70b-8192"
SystemPrompt == "You are Wallet Genius, an AI assistant specialized in blockchain wallet analysis."

\* the risk handler calling the gateway's risk operation
GatewayOpOf_RiskCalls(handler) ==
    CASE handler = "TokenAnalysis"      -> "get_wallet_balance"
      [] handler = "NftAnalysis"        -> "get_nft_holdings"
      [] handler = "TransactionHistory" -> "get_transaction_history"
      [] handler = "RiskAssessment"     -> "get_risk_assessment"
      [] OTHER                          -> "none"

\* the gateway operation each handler calls, "none" for a handler that calls
\* none
GatewayOpOf(handler) ==
    CASE handler = "TokenAnalysis"      -> "get_wallet_balance"
      [] handler = "NftAnalysis"        -> "get_nft_holdings"
      [] handler = "TransactionHistory" -> "get_transaction_history"
      [] OTHER                          -> "none"

\* the document of a handler that makes no call
StaticDocument(handler, wallet_address) ==
    CASE handler = "RiskAssessment"       -> HandleRiskAssessment(wallet_address)
      [] handler = "WhaleAnalysis"        -> HandleWhaleAnalysis(wallet_address)
      [] handler = "ContractVerification" -> HandleContractVerification(wallet_address)

\* the handler's code after its gateway call, with the handler's except
\* branch for a call that raised; a handler that makes no call has no use
\* for a result
HandlerDocument(handler, result, wallet_address) ==
    CASE handler = "TokenAnalysis" -> HandleTokenAnalysis(result, wallet_address)
      [] handler = "NftAnalysis" ->
           IF result.raised
           THEN FormatErrorMessage("Failed to fetch NFT data", result.exc.msg)
           ELSE HandleNftAnalysis(result.value, wallet_address)
      [] handler = "TransactionHistory" ->
           IF result.raised
           THEN FormatErrorMessage("Failed to fetch transaction history", result.exc.msg)
           ELSE HandleTransactionHistory(result.value, wallet_address)
      [] OTHER -> StaticDocument(handler, wallet_address)

-----------------------------------------------------------------------------
(* Inputs: messages, upstream answers, completion answers                    *)

\* the largest number of items in a generated provider list
MaxItems == 13

Repeat(x, n) == [ i \in 1..n |-> x ]

Address1 == <<"0","x">> \o Repeat("1", AddressHexDigits)
Address2 == <<"0","x","9","6","5","6","9","1","1","5","8","5","7","9","9","e","7","1","2","9","6","6","8","a","1","e","7","9","a","0","C","8","b","4","3","d","b","B","7","E","A","9">>

\* what may follow the words of a message: nothing, an address, an address of
\* mixed case, 0x with one hex digit too few, a 64-digit transaction hash, two
\* addresses, an address followed by more words
Tails ==
    << <<>>,
       Address1,
       Address2,
       <<"0","x">> \o Repeat("a", AddressHexDigits - 1),
       <<"0","x">> \o Repeat("f", 64),
       Address2 \o <<" ">> \o Address1,
       Address1 \o <<" ","n","f","t">> >>

Phrases ==
    << <<"h","e","l","l","o"," ">>,
       <<"w","h","a","t"," ","i","s"," ","i","n"," ">>,
       <<"S","h","o","w"," ","a","l","l"," ","t","o","k","e","n","s"," ","f","o","r"," ">>,
       <<"S","h","o","w"," ","N","F","T"," ","c","o","l","l","e","c","t","i","o","n"," ","f","o","r"," ">>,
       <<"t","o","k","e","n"," ","a","n","d"," ","n","f","t"," ","o","f"," ">>,
       <<"t","r","a","n","s","a","c","t","i","o","n"," ","h","i","s","t","o","r","y"," ","o","f"," ">>,
       <<"c","h","e","c","k"," ","r","i","s","k","s"," ","f","o","r"," ">>,
       <<"i","s"," ","t","h","i","s"," ","a"," ","w","h","a","l","e"," ">>,
       <<"a","n","a","l","y","z","e"," ","w","h","a","l","e"," ">>,
       <<"v","e","r","i","f","y"," ","c","o","n","t","r","a","c","t"," ">>,
       <<"n","f","t"," ","h","i","s","t","o","r","y"," ","o","f"," ">>,
       <<"W","H","A","L","E"," ","c","o","n","t","r","a","c","t"," ">>,
       <<"t","x"," ","s","e","c","u","r","i","t","y"," ">> >>

\* the question of test_generate_response
TestQuestion == <<"W","h","a","t"," ","c","a","n"," ","y","o","u"," ","d","o","?">>

\* the messages generate_response is called with: words followed by a tail,
\* the question of the test, and None, which no regular expression accepts
Messages ==
    { Phrases[p] \o Tails[t] : p \in DOMAIN Phrases, t \in DOMAIN Tails }
        \cup {None, TestQuestion}

\* the form fields the chat route is called with: a greeting, and a token,
\* an NFT, a transaction and a risk question, each with and without an address
ChatMessages == { Phrases[p] \o Tails[t] : p \in {1, 3, 4, 6, 7}, t \in {1, 2} }

\* texts an upstream provider may put into a field
PlainText  == <<"u","s","d","c">>
ScriptText == <<"<","s","c","r","i","p","t",">">>
QuoteText  == <<"a","&","'","b">>
AttrText   == <<"x","\""," ","o","n","e","r","r","o","r","=","\"","y">>
MarkupText == <<"*","*","h","i","*","*","\n","\n","*","a","*","\n","<","b",">">>

ProviderTexts == <<PlainText, ScriptText, QuoteText, AttrText>>

Pagination == JDict([total_items |-> JNum(1), offset |-> JNum(0),
                     limit |-> JNum(10), has_next |-> JBool(FALSE)])

Token(text) ==
    JDict([blockchain |-> JStr(text), chain_id |-> JNum(137), decimal |-> JNum(18),
           quantity |-> JNum(5), token_address |-> JStr(text),
           token_name |-> JStr(text), token_symbol |-> JStr(text)])

\* a token of the usual kind: a 42-character contract address, a chain name
PlainToken ==
    JDict([blockchain |-> JStr(<<"p","o","l","y","g","o","n">>), chain_id |-> JNum(137),
           decimal |-> JNum(18), quantity |-> JNum(5), token_address |-> JStr(Address2),
           token_name |-> JStr(PlainText), token_symbol |-> JStr(Repeat("S", SymbolDisplayLength + 1))])

\* a token of the usual kind but for its name, the text of a script tag
ScriptNameToken ==
    JDict([blockchain |-> JStr(<<"p","o","l","y","g","o","n">>), chain_id |-> JNum(137),
           decimal |-> JNum(18), quantity |-> JNum(5), token_address |-> JStr(Address2),
           token_name |-> JStr(ScriptText), token_symbol |-> JStr(PlainText)])

EmptyNameToken ==
    JDict([blockchain |-> JStr(<<>>), chain_id |-> JNum(137),
           decimal |-> JNum(18), quantity |-> JNum(0), token_address |-> JStr(<<>>),
           token_name |-> JStr(<<>>), token_symbol |-> JStr(<<>>)])

\* decoded bodies a balance request may be answered with
BalanceBodies ==
    [ n \in 1..(MaxItems + 1) |->
        JDict([token |-> JList(Repeat(PlainToken, n - 1)), pagination |-> Pagination]) ]
    \o [ i \in DOMAIN ProviderTexts |->
        JDict([token |-> JList(<<Token(ProviderTexts[i])>>), pagination |-> Pagination]) ]
    \o << JDict([token |-> JList(<<EmptyNameToken, PlainToken>>), pagination |-> Pagination,
                 extra |-> JNull]),
          JDict([token |-> JList(<<PlainToken>>)]),
          JDict([pagination |-> Pagination]),
          JDict([token |-> JNull, pagination |-> Pagination]),
          JDict([token |-> JList(<<JDict([token_name |-> JStr(PlainText)])>>),
                 pagination |-> Pagination]),
          JDict([token |-> JList(<<PlainToken, JStr(PlainText)>>), pagination |-> Pagination]),
          JDict([data |-> JList(<<>>), total_count |-> JNum(0)]),
          JList(<<PlainToken>>),
          JNull,
          JDict([token |-> JList(<<PlainToken, ScriptNameToken>>), pagination |-> Pagination]) >>

Nft(text) ==
    JDict([name |-> JStr(text), collection_name |-> JStr(text),
           token_id |-> JStr(text), image_url |-> JStr(text)])

\* decoded bodies an NFT request may be answered with
NftBodies ==
    [ n \in 1..(MaxItems + 1) |-> JDict([data |-> JList(Repeat(Nft(PlainText), n - 1))]) ]
    \o [ i \in DOMAIN ProviderTexts |-> JDict([nfts |-> JList(<<Nft(ProviderTexts[i])>>)]) ]
    \o << JDict([data |-> JDict([nfts |-> JList(<<Nft(PlainText), JDict(<<>>)>>)])]),
          JDict([data |-> JDict([tokens |-> JList(<<JDict([name |-> JNull])>>)])]),
          JDict([data |-> JDict([items |-> JList(<<Nft(PlainText)>>)])]),
          JDict([data |-> JNum(5), nfts |-> JList(<<Nft(PlainText)>>)]),
          JDict([data |-> JDict([nfts |-> JNull])]),
          JDict([nfts |-> JNum(5)]),
          JDict([nfts |-> JDict([a |-> Nft(PlainText)])]),
          JDict([nfts |-> JStr(PlainText)]),
          JDict([nfts |-> JList(<<Nft(PlainText), JStr(PlainText)>>)]),
          JDict([nfts |-> JList(Repeat(Nft(PlainText), NftDisplayCap) \o <<JNull>>)]),
          JDict([result |-> JList(<<Nft(PlainText)>>)]),
          JList(<<Nft(ScriptText)>>),
          JList(<<JStr(KeyText["data"])>>),
          JStr(<<"n","o"," ","d","a","t","a">>),
          JStr(PlainText),
          JNum(5),
          JNull >>

Transaction  == JDict([hash |-> JStr(PlainText)])
Transaction2 == JDict([hash |-> JStr(ScriptText)])

\* decoded bodies a transaction request may be answered with
TransactionBodies ==
    << JDict([data |-> JList(<<>>)]),
       JDict([data |-> JList(<<Transaction>>)]),
       JDict([data |-> JList(<<Transaction, Transaction>>)]),
       JDict([data |-> JDict([transactions |-> JList(<<Transaction2>>)])]),
       JDict([data |-> JDict([transactions |-> JNum(5)])]),
       JDict([data |-> JDict([items |-> JList(<<Transaction>>)])]),
       JDict([transactions |-> JList(<<Transaction, Transaction, Transaction>>)]),
       JDict([transactions |-> JStr(PlainText)]),
       JDict([transactions |-> JNull]),
       JList(<<Transaction>>),
       JStr(KeyText["transactions"]),
       JNum(5) >>

\* decoded bodies a risk, whale or contract request may be answered with
OtherBodies ==
    << JDict([risk_level |-> JStr(PlainText)]),
       JDict(<<>>),
       JList(<<>>),
       JStr(ScriptText),
       JNull >>

Bodies(o) ==
    CASE o = "get_wallet_balance"      -> BalanceBodies
      [] o = "get_nft_holdings"        -> NftBodies
      [] o = "get_transaction_history" -> TransactionBodies
      [] OTHER                         -> OtherBodies

\* what one request of operation o may be answered with
HttpOutcomes(o) ==
    << ConnectionError,
       Timeout,
       Response(500, NotJson),
       Response(404, JsonBody(JDict(<<>>))),
       Response(201, JsonBody(Bodies(o)[1])),
       Response(204, NotJson),
       Response(200, NotJson) >>
    \o [ i \in DOMAIN Bodies(o) |-> Response(200, JsonBody(Bodies(o)[i])) ]

\* what one completion call may be answered with
CompletionOutcomes ==
    [ i \in DOMAIN ProviderTexts |-> CompletionError(ProviderTexts[i]) ]
    \o [ i \in DOMAIN ProviderTexts |-> Completion(<<ProviderTexts[i]>>) ]
    \o << Completion(<<MarkupText, PlainText>>),
          Completion(<<<<>>>>),
          Completion(<<None>>),
          Completion(<<>>) >>

-----------------------------------------------------------------------------
(* The state machine                                                         *)

\* the calls in progress: app.py serves every request with the one
\* chat_service object
Calls == {"c1", "c2"}

VARIABLES
    pc,          \* per call: "idle", "http" (a requests.get call is outstanding),
                 \* "completion" (the completion call is outstanding), "done"
    entry,       \* per call: the method called, "generate_response" or a gateway operation
    message,     \* per call: the argument of generate_response
    wallet,      \* per call: the extracted address, or the address argument of a gateway operation
    handler,     \* per call: the handler _handle_wallet_query or generate_response chose
    op,          \* per call: the gateway operation invoked, "none" if none
    httpLog,     \* per call: the requests.get calls made, in order
    replies,     \* per call: for each request made, how it was answered
    lastAnswer,  \* per call: the latest answer to an outbound call, in full
    completions, \* per call: the chat.completions.create calls made
    ret,         \* per call: what the entry method returned or raised
    jsonErrorIsRequestException,
                 \* the installed requests library: whether its JSONDecodeError
                 \* derives from RequestException
    service      \* the fields of the one ChatService object and of its
                 \* BitsCrunchAPIClient, shared by all calls

vars == <<pc, entry, message, wallet, handler, op, httpLog, replies, lastAnswer, completions, ret,
          jsonErrorIsRequestException, service>>

Pending == [raised |-> FALSE, value |-> [kind |-> "pending"]]

\* the fields ChatService.__init__ and BitsCrunchAPIClient.__init__ assign
ConstructedService ==
    [current_model |-> CurrentModel,
     base_url      |-> "https://api.unleashnfts.com/api/v1",
     api_key       |-> "settings.bitscrunch_api_key",
     headers       |-> [Accept |-> "application/json",
                        x_api_key |-> "settings.bitscrunch_api_key"]]

Init ==
    /\ pc = [c \in Calls |-> "idle"]
    /\ entry = [c \in Calls |-> "none"]
    /\ message = [c \in Calls |-> <<>>]
    /\ wallet = [c \in Calls |-> None]
    /\ handler = [c \in Calls |-> "none"]
    /\ op = [c \in Calls |-> "none"]
    /\ httpLog = [c \in Calls |-> <<>>]
    /\ replies = [c \in Calls |-> <<>>]
    /\ lastAnswer = [c \in Calls |-> [kind |-> "none"]]
    /\ completions = [c \in Calls |-> <<>>]
    /\ ret = [c \in Calls |-> Pending]
    /\ jsonErrorIsRequestException \in BOOLEAN
    /\ service = ConstructedService

\* the completion call made with the lower-cased message
CompletionCall_Lowered(user_message) ==
    [system |-> SystemPrompt, user |-> Lower(user_message), model |-> service.current_model,
     timeout |-> <<>>]

\* the chat.completions.create call of _handle_general_query, with the
\* model name read from self.current_model
CompletionCall(user_message) ==
    [system |-> SystemPrompt, user |-> user_message, model |-> service.current_model,
     timeout |-> <<>>]

\* the handler generate_response dispatches to: "general" unless an address
\* is extracted and valid
HandlerOf(m) ==
    IF ExtractWalletAddress(m) # None /\ IsValidWalletAddress(ExtractWalletAddress(m))
    THEN ClassifyIntent(m)
    ELSE "general"

\* generate_response without its except branch
GenerateResponseReturn_NoExcept(body) == body

\* generate_response's own except branch: whatever its try body raises
\* becomes an error document
GenerateResponseReturn(body) ==
    IF body.raised
    THEN Return(FormatErrorMessage("Error Processing Request", body.exc.msg))
    ELSE body

\* the chat route of app.py around generate_response: the document goes
\* out with status 200; its except branch answers 500 with a template of its
\* own, which has no title and no tip
ChatReturn(response) ==
    IF response.raised
    THEN Return([status_code |-> 500,
                 content |-> Doc("chat-error", "", <<>>, 0, <<>>, response.exc.msg)])
    ELSE Return([status_code |-> 200, content |-> response.value])

\* what the method a call entered returns, given what the body of
\* generate_response returned or raised
EntryReturn(e, body) ==
    IF e = "chat"
    THEN ChatReturn(GenerateResponseReturn(body))
    ELSE GenerateResponseReturn(body)

\* how a reply is recorded: whether its status was 200 and its body JSON
ReplyOf(outcome) ==
    [ok200 |-> outcome.kind = "response" /\ outcome.status = 200,
     json  |-> outcome.kind = "response" /\ outcome.status = 200 /\ outcome.body.json]

\* generate_response(m) up to its first outbound call: a message that is no
\* text makes re.search raise; a handler that calls nothing returns at once
GenerateResponse(c, m) ==
    /\ pc[c] = "idle"
    /\ entry' = [entry EXCEPT ![c] = "generate_response"]
    /\ message' = [message EXCEPT ![c] = m]
    /\ UNCHANGED <<replies, lastAnswer, jsonErrorIsRequestException, service>>
    /\ IF m = None
       THEN /\ ret' = [ret EXCEPT ![c] = GenerateResponseReturn(Raise(TypeError))]
            /\ pc' = [pc EXCEPT ![c] = "done"]
            /\ UNCHANGED <<wallet, handler, op, httpLog, completions>>
       ELSE /\ wallet' = [wallet EXCEPT ![c] = ExtractWalletAddress(m)]
            /\ handler' = [handler EXCEPT ![c] = HandlerOf(m)]
            /\ op' = [op EXCEPT ![c] = GatewayOpOf(HandlerOf(m))]
            /\ IF HandlerOf(m) = "general"
               THEN /\ completions' = [completions EXCEPT ![c] = Append(@, CompletionCall(m))]
                    /\ pc' = [pc EXCEPT ![c] = "completion"]
                    /\ UNCHANGED <<httpLog, ret>>
               ELSE IF GatewayOpOf(HandlerOf(m)) # "none"
               THEN /\ httpLog' = [httpLog EXCEPT ![c] =
                                       Append(@, RequestOf(GatewayOpOf(HandlerOf(m)), 1))]
                    /\ pc' = [pc EXCEPT ![c] = "http"]
                    /\ UNCHANGED <<completions, ret>>
               ELSE /\ ret' = [ret EXCEPT ![c] = GenerateResponseReturn(
                                   Return(StaticDocument(HandlerOf(m), ExtractWalletAddress(m))))]
                    /\ pc' = [pc EXCEPT ![c] = "done"]
                    /\ UNCHANGED <<httpLog, completions>>

\* the chat route called with the form field m, a text: it calls
\* generate_response(m), here up to the first outbound call
Chat(c, m) ==
    /\ pc[c] = "idle"
    /\ entry' = [entry EXCEPT ![c] = "chat"]
    /\ message' = [message EXCEPT ![c] = m]
    /\ wallet' = [wallet EXCEPT ![c] = ExtractWalletAddress(m)]
    /\ handler' = [handler EXCEPT ![c] = HandlerOf(m)]
    /\ op' = [op EXCEPT ![c] = GatewayOpOf(HandlerOf(m))]
    /\ UNCHANGED <<replies, lastAnswer, jsonErrorIsRequestException, service>>
    /\ IF HandlerOf(m) = "general"
       THEN /\ completions' = [completions EXCEPT ![c] = Append(@, CompletionCall(m))]
            /\ pc' = [pc EXCEPT ![c] = "completion"]
            /\ UNCHANGED <<httpLog, ret>>
       ELSE IF GatewayOpOf(HandlerOf(m)) # "none"
       THEN /\ httpLog' = [httpLog EXCEPT ![c] =
                               Append(@, RequestOf(GatewayOpOf(HandlerOf(m)), 1))]
            /\ pc' = [pc EXCEPT ![c] = "http"]
            /\ UNCHANGED <<completions, ret>>
       ELSE /\ ret' = [ret EXCEPT ![c] = EntryReturn("chat",
                           Return(StaticDocument(HandlerOf(m), ExtractWalletAddress(m))))]
            /\ pc' = [pc EXCEPT ![c] = "done"]
            /\ UNCHANGED <<httpLog, completions>>

\* a gateway operation called by itself (the debug and verify routes, the
\* tests), up to its first request
GatewayCall(c, o, address) ==
    /\ pc[c] = "idle"
    /\ entry' = [entry EXCEPT ![c] = o]
    /\ wallet' = [wallet EXCEPT ![c] = address]
    /\ op' = [op EXCEPT ![c] = o]
    /\ httpLog' = [httpLog EXCEPT ![c] = Append(@, RequestOf(o, 1))]
    /\ pc' = [pc EXCEPT ![c] = "http"]
    /\ UNCHANGED <<message, handler, replies, lastAnswer, completions, ret,
                   jsonErrorIsRequestException, service>>

\* a wallet path that hands the message to the completion provider when
\* its handler ends in an error document
HttpResponse_FallsBackToCompletion(c, outcome) ==
    /\ pc[c] = "http"
    /\ replies' = [replies EXCEPT ![c] = Append(@, ReplyOf(outcome))]
    /\ lastAnswer' = [lastAnswer EXCEPT ![c] = outcome]
    /\ LET step == GatewayStep(op[c], wallet[c], Len(httpLog[c]), outcome,
                               jsonErrorIsRequestException)
       IN  IF step.act = "next"
           THEN /\ httpLog' = [httpLog EXCEPT ![c] =
                                   Append(@, RequestOf(op[c], Len(httpLog[c]) + 1))]
                /\ UNCHANGED <<pc, ret, completions>>
           ELSE IF /\ entry[c] \in {"generate_response", "chat"}
                   /\ HandlerDocument(handler[c], step.result, wallet[c]).kind = "error"
           THEN /\ completions' = [completions EXCEPT ![c] =
                                       Append(@, CompletionCall(message[c]))]
                /\ pc' = [pc EXCEPT ![c] = "completion"]
                /\ UNCHANGED <<httpLog, ret>>
           ELSE /\ pc' = [pc EXCEPT ![c] = "done"]
                /\ ret' = [ret EXCEPT ![c] =
                              IF entry[c] \in {"generate_response", "chat"}
                              THEN EntryReturn(entry[c],
                                       Return(HandlerDocument(handler[c], step.result, wallet[c])))
                              ELSE step.result]
                /\ UNCHANGED <<httpLog, completions>>
    /\ UNCHANGED <<entry, message, wallet, handler, op, jsonErrorIsRequestException, service>>

\* the outstanding request is answered: the operation goes on to its next
\* candidate, or ends, and then its caller runs to its return
HttpResponse(c, outcome) ==
    /\ pc[c] = "http"
    /\ replies' = [replies EXCEPT ![c] = Append(@, ReplyOf(outcome))]
    /\ lastAnswer' = [lastAnswer EXCEPT ![c] = outcome]
    /\ LET step == GatewayStep(op[c], wallet[c], Len(httpLog[c]), outcome,
                               jsonErrorIsRequestException)
       IN  IF step.act = "next"
           THEN /\ httpLog' = [httpLog EXCEPT ![c] =
                                   Append(@, RequestOf(op[c], Len(httpLog[c]) + 1))]
                /\ UNCHANGED <<pc, ret>>
           ELSE /\ pc' = [pc EXCEPT ![c] = "done"]
                /\ ret' = [ret EXCEPT ![c] =
                              IF entry[c] \in {"generate_response", "chat"}
                              THEN EntryReturn(entry[c],
                                       Return(HandlerDocument(handler[c], step.result, wallet[c])))
                              ELSE step.result]
                /\ UNCHANGED httpLog
    /\ UNCHANGED <<entry, message, wallet, handler, op, completions, jsonErrorIsRequestException, service>>

\* a completion handler that calls the provider again when the call
\* raised, up to two more times
CompletionResponse_RetriesOnError(c, outcome) ==
    /\ pc[c] = "completion"
    /\ lastAnswer' = [lastAnswer EXCEPT ![c] = outcome]
    /\ IF outcome.kind = "error" /\ Len(completions[c]) < 3
       THEN /\ completions' = [completions EXCEPT ![c] =
                                   Append(@, CompletionCall(message[c]))]
            /\ UNCHANGED <<pc, ret>>
       ELSE /\ pc' = [pc EXCEPT ![c] = "done"]
            /\ ret' = [ret EXCEPT ![c] =
                          EntryReturn(entry[c], Return(HandleGeneralQuery(outcome)))]
            /\ UNCHANGED completions
    /\ UNCHANGED <<entry, message, wallet, handler, op, httpLog, replies,
                   jsonErrorIsRequestException, service>>

\* a completion handler that, when the call raised, stores another model
\* name in self.current_model for the calls to come
CompletionResponse_SwitchesModel(c, outcome) ==
    /\ pc[c] = "completion"
    /\ pc' = [pc EXCEPT ![c] = "done"]
    /\ ret' = [ret EXCEPT ![c] = EntryReturn(entry[c], Return(HandleGeneralQuery(outcome)))]
    /\ lastAnswer' = [lastAnswer EXCEPT ![c] = outcome]
    /\ service' = IF outcome.kind = "error"
                  THEN [service EXCEPT !.current_model = "another-model"]
                  ELSE service
    /\ UNCHANGED <<entry, message, wallet, handler, op, httpLog, replies, completions,
                   jsonErrorIsRequestException>>

\* the outstanding completion call returns or raises, and
\* _handle_general_query runs to its return
CompletionResponse(c, outcome) ==
    /\ pc[c] = "completion"
    /\ pc' = [pc EXCEPT ![c] = "done"]
    /\ ret' = [ret EXCEPT ![c] = EntryReturn(entry[c], Return(HandleGeneralQuery(outcome)))]
    /\ lastAnswer' = [lastAnswer EXCEPT ![c] = outcome]
    /\ UNCHANGED <<entry, message, wallet, handler, op, httpLog, replies, completions,
                   jsonErrorIsRequestException, service>>

\* one step of call c
Step(c) ==
    \/ \E m \in Messages : GenerateResponse(c, m)
    \/ \E m \in ChatMessages : Chat(c, m)
    \/ \E o \in GatewayOps, a \in {Address1, Address2} : GatewayCall(c, o, a)
    \/ \E i \in DOMAIN HttpOutcomes(op[c]) : HttpResponse(c, HttpOutcomes(op[c])[i])
    \/ \E i \in DOMAIN CompletionOutcomes : CompletionResponse(c, CompletionOutcomes[i])

\* one call at a time: every input, one call
Next == Step("c1")

Spec == Init /\ [][Next]_vars

\* the messages of the two-call specification: one of each handler that the
\* four placeholder formatters serve, same address; a token question about
\* another address; a greeting
PairMessages ==
    { Phrases[p] \o Address1 : p \in {6, 7, 8, 10} }
        \cup { Phrases[3] \o Address2, Phrases[1] }

\* the answers of the two-call specification
PairHttpOutcomes ==
    << ConnectionError,
       Response(500, NotJson),
       Response(200, NotJson),
       Response(200, JsonBody(JNum(5))),
       Response(200, JsonBody(TransactionBodies[1])),
       Response(200, JsonBody(TransactionBodies[2])),
       Response(200, JsonBody(TransactionBodies[4])),
       Response(200, JsonBody(TransactionBodies[7])),
       Response(200, JsonBody(BalanceBodies[2])) >>

\* the completion answers of the two-call specification
PairCompletionOutcomes ==
    << CompletionError(PlainText), Completion(<<MarkupText>>), Completion(<<>>) >>

\* one step of call c in the two-call specification
PairStep(c) ==
    \/ \E m \in PairMessages : GenerateResponse(c, m)
    \/ \E i \in DOMAIN PairHttpOutcomes : HttpResponse(c, PairHttpOutcomes[i])
    \/ \E i \in DOMAIN PairCompletionOutcomes :
           CompletionResponse(c, PairCompletionOutcomes[i])

\* two calls, their steps interleaved, each with its own upstream answers
PairNext == \E c \in Calls : PairStep(c)

PairSpec == Init /\ [][PairNext]_vars

\* the messages of the fair specification: a question for each handler
\* with an address, one that matches no keyword set, a greeting, and None
TerminationMessages ==
    { Phrases[p] \o Address1 : p \in {2, 3, 4, 6, 7, 8, 10} } \cup {Phrases[1], None}

\* the answers of the fair specification
TerminationHttpOutcomes ==
    PairHttpOutcomes
        \o << Timeout,
               Response(404, JsonBody(JDict(<<>>))),
               Response(200, JsonBody(NftBodies[2])) >>

\* the outstanding outbound call of call c returns or fails: requests.get
\* and chat.completions.create are blocking calls that end in a value or in
\* an exception
Answer(c) ==
    \/ \E i \in DOMAIN TerminationHttpOutcomes : HttpResponse(c, TerminationHttpOutcomes[i])
    \/ \E i \in DOMAIN PairCompletionOutcomes :
           CompletionResponse(c, PairCompletionOutcomes[i])

\* one step of call c in the fair specification
TerminationStep(c) ==
    \/ \E m \in TerminationMessages : GenerateResponse(c, m)
    \/ Answer(c)

TerminationNext == TerminationStep("c1")

\* one call, every outbound call of it eventually answered
FairSpec == Init /\ [][TerminationNext]_vars /\ WF_vars(Answer("c1"))

\* the texts is_valid_wallet_address is called with: whitespace, a prefix,
\* a run of one character and a tail
ValidatorLeads == << <<>>, <<" ">>, <<"\n", "\t">> >>
ValidatorPrefixes == << <<"0","x">>, <<"0","X">>, <<"1","x">>, <<"x">>, <<>> >>
ValidatorDigits == << "a", "F", "7", "g" >>
ValidatorLengths == { AddressHexDigits - 1, AddressHexDigits, AddressHexDigits + 1 }
ValidatorTrails == << <<>>, <<" ">>, <<"\n">>, <<"\r", "\n">>, <<" ", "z">>, <<"\n", "0">> >>

\* those texts, and: no text, the empty text, blanks only, an address
\* of mixed case, an address inside a sentence, an address cut by a blank
ValidatorInputs ==
    { ValidatorLeads[l] \o ValidatorPrefixes[p] \o Repeat(ValidatorDigits[d], n)
          \o ValidatorTrails[t] :
        l \in DOMAIN ValidatorLeads, p \in DOMAIN ValidatorPrefixes,
        d \in DOMAIN ValidatorDigits, n \in ValidatorLengths, t \in DOMAIN ValidatorTrails }
    \cup { None, <<>>, <<" ", "\n">>, Address2, <<"\t">> \o Address2 \o <<"\n">>,
           Phrases[1] \o Address1, Address1 \o <<" ","n","f","t">>,
           SubSeq(Address2, 1, 22) \o <<" ">> \o SubSeq(Address2, 23, 42) }

\* data_processor.is_valid_wallet_address(address) called by itself
IsValidWalletAddressCall(c, address) ==
    /\ pc[c] = "idle"
    /\ entry' = [entry EXCEPT ![c] = "is_valid_wallet_address"]
    /\ wallet' = [wallet EXCEPT ![c] = address]
    /\ ret' = [ret EXCEPT ![c] = Return(IsValidWalletAddress(address))]
    /\ pc' = [pc EXCEPT ![c] = "done"]
    /\ UNCHANGED <<message, handler, op, httpLog, replies, lastAnswer, completions,
                   jsonErrorIsRequestException, service>>

ValidatorNext == \E s \in ValidatorInputs : IsValidWalletAddressCall("c1", s)

\* the validator on every input, one call
ValidatorSpec == Init /\ [][ValidatorNext]_vars

-----------------------------------------------------------------------------
(* Properties                                                                *)

ChatDone(c) == pc[c] = "done" /\ entry[c] = "generate_response"

DocumentKinds == {"error", "wallet-analysis", "nft-empty", "nft", "transaction-history",
                  "risk-assessment", "whale-analysis", "contract-verification",
                  "general-response"}

AllRequestsFailed(c) ==
    /\ replies[c] # <<>>
    /\ \A k \in DOMAIN replies[c] : ~replies[c][k].ok200

\* C2: when the balance request fails, generate_response for a TokenAnalysis
\* message returns the wallet-analysis document with zero tokens and the
\* 'No tokens found' text, not an error document.
C2_FailedBalanceReportsZeroTokens ==
    \A c \in Calls :
        (ChatDone(c) /\ handler[c] = "TokenAnalysis" /\ AllRequestsFailed(c)) =>
            /\ ~ret[c].raised
            /\ ret[c].value.kind = "wallet-analysis"
            /\ ret[c].value.count = 0
            /\ ret[c].value.cards = <<>>

\* the answer to a balance request is no valid balance: the request failed,
\* the status is an error status, or the body is not a dict holding a token
\* list and a pagination object
BadBalanceAnswer(a) ==
    \/ a.kind # "response"
    \/ a.status >= 400
    \/ ~a.body.json
    \/ a.body.value.t # "dict"
    \/ ~({"token", "pagination"} \subseteq DOMAIN a.body.value.v)

\* C3: get_wallet_balance never raises; on a failed request or a body that
\* fails validation it returns an empty WalletBalanceResponse.
C3_GetWalletBalanceNeverRaises ==
    \A c \in Calls :
        (pc[c] = "done" /\ entry[c] = "get_wallet_balance") =>
            /\ ~ret[c].raised
            /\ BadBalanceAnswer(lastAnswer[c]) => ret[c].value.token = <<>>

\* the keyword sets in the order of the claim, each with its intent
KeywordSets ==
    << [intent |-> "TokenAnalysis",        keywords |-> TokenKeywords],
       [intent |-> "NftAnalysis",          keywords |-> NftKeywords],
       [intent |-> "TransactionHistory",   keywords |-> TransactionKeywords],
       [intent |-> "RiskAssessment",       keywords |-> RiskKeywords],
       [intent |-> "WhaleAnalysis",        keywords |-> WhaleKeywords],
       [intent |-> "ContractVerification", keywords |-> ContractKeywords] >>

\* the sets that have a keyword in a lower-cased message
MatchingSets(lower) ==
    { k \in DOMAIN KeywordSets :
        \E i \in DOMAIN KeywordSets[k].keywords :
            Contains(lower, KeywordSets[k].keywords[i]) }

\* the intent of the first matching set, TokenAnalysis when none matches
FirstMatchingIntent(m) ==
    LET matching == MatchingSets(Lower(m)) IN
    IF matching = {}
    THEN "TokenAnalysis"
    ELSE KeywordSets[CHOOSE k \in matching : \A j \in matching : k <= j].intent

\* the lower-cased message has both the word token and the word nft
TokenAndNft(lower) ==
    Contains(lower, <<"t","o","k","e","n">>) /\ Contains(lower, <<"n","f","t">>)

\* the documents each handler can return
KindsOf(h) ==
    CASE h = "TokenAnalysis"        -> {"wallet-analysis", "error"}
      [] h = "NftAnalysis"          -> {"nft", "nft-empty", "error"}
      [] h = "TransactionHistory"   -> {"transaction-history", "error"}
      [] h = "RiskAssessment"       -> {"risk-assessment", "error"}
      [] h = "WhaleAnalysis"        -> {"whale-analysis", "error"}
      [] h = "ContractVerification" -> {"contract-verification", "error"}
      [] OTHER                      -> {"general-response", "error"}

WalletPath(c) == entry[c] = "generate_response" /\ handler[c] \in Intents

\* C4: with a valid address in the message, the handler that runs is the one
\* of the first keyword set, in the order Token, Nft, TransactionHistory, Risk,
\* Whale, ContractVerification, that has a keyword in the lower-cased message,
\* TokenAnalysis when none has; a message with "token" and "nft" is a
\* TokenAnalysis.
C4_FirstMatchingKeywordSetWins ==
    \A c \in Calls :
        WalletPath(c) =>
            /\ handler[c] = FirstMatchingIntent(message[c])
            /\ TokenAndNft(Lower(message[c])) => handler[c] = "TokenAnalysis"
            /\ pc[c] = "done" => ret[c].value.kind \in KindsOf(handler[c])

\* C4 witness: a message with both "token" and "nft" was answered by the
\* token handler.
C4_Witness ==
    \E c \in Calls :
        /\ ChatDone(c)
        /\ TokenAndNft(Lower(message[c]))
        /\ handler[c] = "TokenAnalysis"
        /\ ret[c].value.kind = "wallet-analysis"

\* the message holds 0x followed by 40 hex digits somewhere
HasAddress(m) ==
    \E i \in DOMAIN m :
        /\ i + 41 <= Len(m)
        /\ SubSeq(m, i, i + 1) = <<"0", "x">>
        /\ \A k \in (i + 2)..(i + 41) : m[k] \in HexChars

\* the characters of a text that are neither markup the template added nor
\* the stars and newlines the markdown conversion consumes
Letters(s) == SelectSeq(s, LAMBDA e : e \in LowerSet \cup SpecialChars)

\* the completion call returned a completion whose first choice has text
CompletionSucceeded(a) ==
    /\ a.kind = "completion"
    /\ a.choices # <<>>
    /\ a.choices[1] # None

\* C5: for a message without an address, generate_response calls the
\* completion provider exactly once, with the fixed system prompt and the raw
\* message, makes no gateway request, and when the call succeeds returns the
\* provider's text in the general-response template.
C5_GeneralQueryCallsCompletionOnce ==
    \A c \in Calls :
        (entry[c] = "generate_response" /\ message[c] # None /\ ~HasAddress(message[c])) =>
            /\ completions[c] =
                   << [system |-> SystemPrompt, user |-> message[c],
                       model |-> CurrentModel, timeout |-> <<>>] >>
            /\ httpLog[c] = <<>>
            /\ (pc[c] = "done" /\ CompletionSucceeded(lastAnswer[c])) =>
                   /\ ~ret[c].raised
                   /\ ret[c].value.kind = "general-response"
                   /\ Letters(ret[c].value.text) = Letters(lastAnswer[c].choices[1])

\* C5 witness: a message without an address, holding upper-case letters, was
\* answered with the provider's text.
C5_Witness ==
    \E c \in Calls :
        /\ ChatDone(c)
        /\ ~HasAddress(message[c])
        /\ Lower(message[c]) # message[c]
        /\ CompletionSucceeded(lastAnswer[c])
        /\ lastAnswer[c].choices[1] = MarkupText
        /\ ret[c].value.kind = "general-response"

\* a multi-endpoint operation is or was in progress in call c
MultiEndpointCall(c) == op[c] \in MultiEndpointOps

\* the candidate URLs of each multi-endpoint operation, as the claim reads
\* them off the operation
CandidateList(o) ==
    CASE o = "get_nft_holdings" ->
           << "/wallet/nft", "/wallet/nfts", "/nft/wallet/{address}", "/wallet/{address}/nfts" >>
      [] o = "get_transaction_history" ->
           << "/wallet/transactions", "/wallet/history", "/transactions/{address}",
              "/wallet/{address}/transactions" >>
      [] o = "get_risk_assessment" ->
           << "/wallet/risk", "/security/{address}", "/wallet/{address}/risk" >>
      [] o = "get_whale_analysis" ->
           << "/wallet/whale", "/analytics/{address}", "/wallet/{address}/analytics" >>
      [] o = "verify_contract" ->
           << "/contract/verify", "/security/contract/{address}", "/contract/{address}/verify" >>

\* the requests of call c are a prefix of the candidate list, in list order,
\* no candidate twice, at most one request unanswered
RequestsArePrefix(c) ==
    /\ Len(httpLog[c]) <= Len(CandidateList(op[c]))
    /\ \A k \in DOMAIN httpLog[c] : httpLog[c][k].url = CandidateList(op[c])[k]
    /\ \A j, k \in DOMAIN httpLog[c] : j # k => httpLog[c][j].url # httpLog[c][k].url
    /\ Len(httpLog[c]) = Len(replies[c]) + (IF pc[c] = "http" THEN 1 ELSE 0)

\* the answer is a 200 whose body the operation could decode, or a 200 at
\* all where the JSON error of the requests library is no RequestException
Ends200(r) == r.ok200 /\ (r.json \/ ~jsonErrorIsRequestException)

\* C6 (as amended): the requests of a multi-endpoint operation are a prefix
\* of its candidate list in list order, each candidate requested at most
\* once; an answer that is a failure is followed by the next candidate, if
\* there is one, and by no retry; the first 200 answer whose body is JSON ends
\* the sequence, while a 200 answer whose body is not JSON ends it only where
\* the requests library raises a JSON error that is no RequestException, and
\* is otherwise followed by the next candidate.
C6_RequestsFollowCandidateList ==
    \A c \in Calls :
        MultiEndpointCall(c) =>
            /\ RequestsArePrefix(c)
            /\ \A k \in DOMAIN replies[c] :
                   IF Ends200(replies[c][k])
                   THEN Len(httpLog[c]) = k /\ pc[c] = "done"
                   ELSE k < Len(CandidateList(op[c])) => Len(httpLog[c]) > k

\* C6 as stated: as above, but every 200 answer ends the sequence.
C6_First200EndsSequence ==
    \A c \in Calls :
        MultiEndpointCall(c) =>
            /\ RequestsArePrefix(c)
            /\ \A k \in DOMAIN replies[c] :
                   IF replies[c][k].ok200
                   THEN Len(httpLog[c]) = k /\ pc[c] = "done"
                   ELSE k < Len(CandidateList(op[c])) => Len(httpLog[c]) > k

\* C6 witness: two candidates failed, the third answered 200 with a JSON body
\* and the call ended after three requests.
C6_Witness ==
    \E c \in Calls :
        /\ pc[c] = "done"
        /\ op[c] = "get_nft_holdings"
        /\ Len(httpLog[c]) = 3
        /\ ~replies[c][1].ok200
        /\ ~replies[c][2].ok200
        /\ replies[c][3].ok200 /\ replies[c][3].json

\* the empty result of the two list operations
EmptyResult(o, address) ==
    IF o = "get_nft_holdings"
    THEN [nfts |-> JList(<<>>), total_count |-> 0, address |-> address]
    ELSE [transactions |-> JList(<<>>), total_count |-> 0, address |-> address]

\* a 200 answer whose handling runs into an error: the body is not JSON, or
\* is a JSON value that is no container
UnexpectedAnswer(a) ==
    /\ a.kind = "response"
    /\ a.status = 200
    /\ \/ ~a.body.json
       \/ a.body.value.t \in {"null", "num", "bool"}

\* C7: get_nft_holdings and get_transaction_history never raise; when every
\* candidate fails, or the handling of a response runs into an error, they
\* return the empty result with the requested address.
C7_ListOperationsNeverRaise ==
    \A c \in Calls :
        (pc[c] = "done" /\ entry[c] \in {"get_nft_holdings", "get_transaction_history"}) =>
            /\ ~ret[c].raised
            /\ (AllRequestsFailed(c) \/ UnexpectedAnswer(lastAnswer[c])) =>
                   ret[c].value = EmptyResult(entry[c], wallet[c])

\* C7 witness: a transaction call ended on a 200 answer that is no container
\* and returned the empty result.
C7_Witness ==
    \E c \in Calls :
        /\ pc[c] = "done"
        /\ entry[c] = "get_transaction_history"
        /\ UnexpectedAnswer(lastAnswer[c])
        /\ lastAnswer[c].body.json
        /\ ~ret[c].raised
        /\ ret[c].value.total_count = 0

\* C8 (as amended): generate_response calls the gateway only for the intents
\* TokenAnalysis, NftAnalysis and TransactionHistory, each its own operation;
\* for RiskAssessment, WhaleAnalysis and ContractVerification, and on the
\* general path, no gateway operation runs and no HTTP request is made.
C8_GatewayOnlyForTokenNftTransactions ==
    \A c \in Calls :
        entry[c] = "generate_response" =>
            /\ handler[c] \in {"RiskAssessment", "WhaleAnalysis", "ContractVerification",
                               "general", "none"}
                   => op[c] = "none" /\ httpLog[c] = <<>>
            /\ handler[c] = "TokenAnalysis"
                   => op[c] = "get_wallet_balance" /\ httpLog[c] # <<>>
            /\ handler[c] = "NftAnalysis"
                   => op[c] = "get_nft_holdings" /\ httpLog[c] # <<>>
            /\ handler[c] = "TransactionHistory"
                   => op[c] = "get_transaction_history" /\ httpLog[c] # <<>>

\* C8 as stated: the gateway is called only for TokenAnalysis and
\* NftAnalysis; for the other four intents no operation, no request.
C8_GatewayOnlyForTokenAndNft ==
    \A c \in Calls :
        (entry[c] = "generate_response"
            /\ handler[c] \in {"TransactionHistory", "RiskAssessment", "WhaleAnalysis",
                               "ContractVerification"})
            => op[c] = "none" /\ httpLog[c] = <<>>

\* C8 witness: a risk assessment was returned without any request.
C8_Witness ==
    \E c \in Calls :
        /\ ChatDone(c)
        /\ handler[c] = "RiskAssessment"
        /\ ret[c].value.kind = "risk-assessment"
        /\ httpLog[c] = <<>>

PlaceholderIntents == {"TransactionHistory", "RiskAssessment", "WhaleAnalysis",
                       "ContractVerification"}

\* two finished generate_response calls with the same message, served by one
\* of the four placeholder formatters
SameMessagePair(c, d) ==
    /\ c # d
    /\ ChatDone(c) /\ ChatDone(d)
    /\ message[c] = message[d]
    /\ handler[c] \in PlaceholderIntents

\* C9 (as amended): for RiskAssessment, WhaleAnalysis and
\* ContractVerification two runs with the same message return identical
\* documents; for TransactionHistory they return documents that are identical
\* but for the number of transactions found, whatever the provider answered.
C9_PlaceholderDocumentsIgnoreProviderData ==
    \A c, d \in Calls :
        SameMessagePair(c, d) =>
            /\ ~ret[c].raised /\ ~ret[d].raised
            /\ [ret[c].value EXCEPT !.count = 0] = [ret[d].value EXCEPT !.count = 0]
            /\ handler[c] # "TransactionHistory" => ret[c].value = ret[d].value

\* C9 as stated: for the four intents two runs with the same message return
\* identical documents.
C9_PlaceholderDocumentsIdentical ==
    \A c, d \in Calls :
        SameMessagePair(c, d) => ret[c] = ret[d]

\* C9 witness: two transaction-history runs with the same message, one
\* answered with one transaction and one with another, returned the same
\* document.
C9_Witness ==
    \E c, d \in Calls :
        /\ SameMessagePair(c, d)
        /\ handler[c] = "TransactionHistory"
        /\ lastAnswer[c] = Response(200, JsonBody(TransactionBodies[2]))
        /\ lastAnswer[d] = Response(200, JsonBody(TransactionBodies[4]))
        /\ ret[c] = ret[d]

\* no element of the text is one of the five special characters
NoRawSpecial(text) == \A i \in DOMAIN text : text[i] \notin SpecialChars

\* every provider-supplied value of a card is free of raw special characters
CardEscaped(card) ==
    \A f \in DOMAIN card : NoRawSpecial(card[f])

\* C10: no string of the user or of a provider reaches a returned document
\* with a raw & " ' > or <: token name, symbol, contract address and
\* blockchain, NFT name, collection, token id and image URL, the completion
\* text and the error detail are all escaped.
C10_EmbeddedStringsAreEscaped ==
    \A c \in Calls :
        ChatDone(c) =>
            /\ NoRawSpecial(ret[c].value.text)
            /\ \A i \in DOMAIN ret[c].value.cards : CardEscaped(ret[c].value.cards[i])

\* the tokens of a balance answer that passed validation
TokensOf(a) == a.body.value.v["token"].v

\* the name of a script tag after the escape table: the two angle brackets
\* as entities
EscapedScriptText == <<"&lt;","s","c","r","i","p","t","&gt;">>

\* a finished token analysis that rendered the tokens of a valid answer
RenderedTokens(c) ==
    /\ ChatDone(c)
    /\ handler[c] = "TokenAnalysis"
    /\ ~ret[c].raised
    /\ ret[c].value.kind = "wallet-analysis"

\* C11: a token named <script> puts no raw <script> tag into the
\* token-analysis document: the name element shows the name as
\* &lt;script&gt;, and neither it nor the icon element, the two elements
\* that are made from the name, holds the text <script>.
C11_ScriptNameIsEscaped ==
    \A c \in Calls :
        RenderedTokens(c) =>
            \A i \in DOMAIN ret[c].value.cards :
                TokensOf(lastAnswer[c])[i].v["token_name"].v = ScriptText =>
                    /\ ret[c].value.cards[i].name = EscapedScriptText
                    /\ ~Contains(ret[c].value.cards[i].name, ScriptText)
                    /\ ~Contains(ret[c].value.cards[i].icon, ScriptText)

\* C11 witness: a balance answer with a token named <script>, its other
\* fields plain, was rendered with the name escaped.
C11_Witness ==
    \E c \in Calls :
        /\ RenderedTokens(c)
        /\ Len(ret[c].value.cards) = 2
        /\ TokensOf(lastAnswer[c])[2] = ScriptNameToken
        /\ ret[c].value.cards[2].name = EscapedScriptText
        /\ ret[c].value.cards[2].icon = <<"<">>

\* C12: every outbound call of a request carries a timeout: each HTTP GET
\* to the data provider, the balance fetch included, and the call to the
\* completion provider.
C12_EveryOutboundCallHasTimeout ==
    \A c \in Calls :
        /\ \A k \in DOMAIN httpLog[c] : httpLog[c][k].timeout # <<>>
        /\ \A k \in DOMAIN completions[c] : completions[c][k].timeout # <<>>

\* the display cap of token cards: the slice tokens[:10] of
\* DataProcessor._generate_wallet_html
TokenDisplayCap == 10

Min(a, b) == IF a < b THEN a ELSE b

\* C13: for a balance answer of n tokens the token-analysis document holds
\* min(n, 10) token cards.
C13_TokenCardsCappedAtTen ==
    \A c \in Calls :
        RenderedTokens(c) =>
            Len(ret[c].value.cards) = Min(Len(TokensOf(lastAnswer[c])), TokenDisplayCap)

\* the item list of the gateway result an NFT analysis was given: what
\* get_nft_holdings took from the last answer, the empty list when it fell back
GatewayNftList(c) ==
    LET a == lastAnswer[c] IN
    IF /\ a.kind = "response" /\ a.status = 200 /\ a.body.json
       /\ ~On200("get_nft_holdings", a.body.value, wallet[c]).raised
    THEN On200("get_nft_holdings", a.body.value, wallet[c]).value.nfts
    ELSE JList(<<>>)

GatewayNfts(c) == GatewayNftList(c).v

\* a finished NFT analysis whose gateway result is a list of items, the
\* ones within the display cap all objects
NftItemsRendered(c) ==
    /\ ChatDone(c)
    /\ handler[c] = "NftAnalysis"
    /\ IsList(GatewayNftList(c))
    /\ \A i \in 1..Min(Len(GatewayNfts(c)), NftDisplayCap) : IsDict(GatewayNfts(c)[i])

\* C14: for a gateway result of n items the NFT document holds min(n, 12)
\* cards, those of the first items in their order; the items beyond the
\* twelfth are left out.
C14_NftCardsCappedAtTwelve ==
    \A c \in Calls :
        NftItemsRendered(c) =>
            /\ ~ret[c].raised
            /\ ret[c].value.kind = (IF GatewayNfts(c) = <<>> THEN "nft-empty" ELSE "nft")
            /\ Len(ret[c].value.cards) = Min(Len(GatewayNfts(c)), NftDisplayCap)
            /\ \A i \in DOMAIN ret[c].value.cards :
                   ret[c].value.cards[i] = NftCard(GatewayNfts(c)[i])

\* C14 witness: a result of more items than the cap was rendered with twelve
\* cards.
C14_Witness ==
    \E c \in Calls :
        /\ NftItemsRendered(c)
        /\ Len(GatewayNfts(c)) > NftDisplayCap
        /\ ret[c].value.kind = "nft"
        /\ Len(ret[c].value.cards) = NftDisplayCap
        /\ ret[c].value.count = Len(GatewayNfts(c))

\* the 42 characters of m from position i on are 0x and 40 hex digits
HoldsAddressAt(m, i) ==
    /\ i + 41 <= Len(m)
    /\ SubSeq(m, i, i + 1) = <<"0", "x">>
    /\ \A k \in (i + 2)..(i + 41) : m[k] \in HexChars

\* the positions of m where an address starts
AddressPositions(m) == { i \in DOMAIN m : HoldsAddressAt(m, i) }

\* a message of more than one address, the first two of them different
SeveralAddresses(m) ==
    \E i, j \in AddressPositions(m) : i < j /\ SubSeq(m, i, i + 41) # SubSeq(m, j, j + 41)

\* C15: the address extracted from a message is none when the message has
\* no 0x followed by 40 hex digits, and else the leftmost such substring; the
\* request is served with that address alone: it is the address of the
\* returned document.
C15_LeftmostAddressIsExtracted ==
    \A c \in Calls :
        (entry[c] = "generate_response" /\ message[c] # None) =>
            /\ AddressPositions(message[c]) = {} =>
                   wallet[c] = None /\ handler[c] = "general"
            /\ \A i \in AddressPositions(message[c]) :
                   (\A j \in AddressPositions(message[c]) : i <= j) =>
                       /\ wallet[c] = SubSeq(message[c], i, i + 41)
                       /\ (pc[c] = "done" /\ ret[c].value.kind # "error") =>
                              ret[c].value.address = SubSeq(message[c], i, i + 41)

\* C15 witness: a message with two different addresses was answered with a
\* document for the first.
C15_Witness ==
    \E c \in Calls :
        /\ ChatDone(c)
        /\ SeveralAddresses(message[c])
        /\ wallet[c] = Address2
        /\ ret[c].value.kind = "wallet-analysis"
        /\ ret[c].value.address = Address2

\* the positions of s that hold no whitespace
InkPositions(s) == { i \in DOMAIN s : s[i] \notin SpaceChars }

\* s without the whitespace around it
Trimmed(s) ==
    IF InkPositions(s) = {} THEN <<>>
    ELSE SubSeq(s, CHOOSE i \in InkPositions(s) : \A j \in InkPositions(s) : i <= j,
                   CHOOSE i \in InkPositions(s) : \A j \in InkPositions(s) : j <= i)

\* exactly 0x and 40 hex digits, nothing else
IsExactAddress(s) ==
    /\ Len(s) = 42
    /\ s[1] = "0" /\ s[2] = "x"
    /\ \A k \in 3..42 : s[k] \in HexChars

ValidatorDone(c) == pc[c] = "done" /\ entry[c] = "is_valid_wallet_address"

\* C16: is_valid_wallet_address answers true exactly when its input, the
\* whitespace around it removed, is 0x followed by exactly 40 hex digits of
\* any case; it answers false for no input, for an empty one, and for any
\* other length, prefix or character, a text that merely holds an address
\* included.
C16_ValidExactlyForTrimmedAddress ==
    \A c \in Calls :
        ValidatorDone(c) =>
            /\ ~ret[c].raised
            /\ ret[c].value = (wallet[c] # None /\ IsExactAddress(Trimmed(wallet[c])))

\* C16 witness: an address of mixed case between a tab and a newline was
\* found valid.
C16_Witness ==
    \E c \in Calls :
        /\ ValidatorDone(c)
        /\ wallet[c] = <<"\t">> \o Address2 \o <<"\n">>
        /\ ret[c].value = TRUE

\* the keys of the canonical result of each multi-endpoint operation: those
\* of the result it falls back to
CanonicalKeys(o) ==
    CASE o = "get_nft_holdings"        -> {"nfts", "total_count", "address"}
      [] o = "get_transaction_history" -> {"transactions", "total_count", "address"}
      [] OTHER                         -> DOMAIN OuterFallback(o, Address1).v

\* the value is a mapping with exactly the canonical keys of operation o
HasCanonicalShape(o, value) ==
    IF o \in {"get_nft_holdings", "get_transaction_history"}
    THEN DOMAIN value = CanonicalKeys(o)
    ELSE value.t = "dict" /\ DOMAIN value.v = CanonicalKeys(o)

\* the call ended on a 200 answer with a JSON body
EndedOn200(c) ==
    /\ pc[c] = "done"
    /\ lastAnswer[c].kind = "response"
    /\ lastAnswer[c].status = 200
    /\ lastAnswer[c].body.json

\* C17: on a 200 answer every multi-endpoint operation returns a result
\* with the canonical keys of its capability, whatever JSON the body holds.
C17_ResultHasCanonicalShape ==
    \A c \in Calls :
        (entry[c] \in MultiEndpointOps /\ EndedOn200(c)) =>
            /\ ~ret[c].raised
            /\ HasCanonicalShape(entry[c], ret[c].value)

\* a finished chat request: the chat route, or generate_response called
\* directly
RequestDone(c) == pc[c] = "done" /\ entry[c] \in {"generate_response", "chat"}

\* the document a finished chat request returned
ReturnedDocument(c) ==
    IF entry[c] = "chat" THEN ret[c].value.content ELSE ret[c].value

\* a step of the request failed: the message was no text, the completion
\* call gave no text, the balance fetch gave no valid balance, or the NFT
\* items were not a list of objects
FailedStep(c) ==
    \/ message[c] = None
    \/ handler[c] = "general" /\ ~CompletionSucceeded(lastAnswer[c])
    \/ handler[c] = "TokenAnalysis" /\ BadBalanceAnswer(lastAnswer[c])
    \/ /\ handler[c] = "NftAnalysis"
       /\ Truthy(GatewayNftList(c))
       /\ ~(/\ IsList(GatewayNftList(c))
            /\ \A i \in 1..Min(Len(GatewayNfts(c)), NftDisplayCap) : IsDict(GatewayNfts(c)[i]))

C19_CompletionFailureIsReported ==
    \A c \in Calls :
        (RequestDone(c) /\ lastAnswer[c].kind = "error") =>
            /\ ~HasAddress(message[c])
            /\ ~ret[c].raised
            /\ ReturnedDocument(c).kind = "error"
            /\ ReturnedDocument(c).title = "Failed to process your request"
            /\ ReturnedDocument(c).text = lastAnswer[c].msg
            /\ op[c] = "none"
            /\ httpLog[c] = <<>>

\* C19 witness: a completion call that raised was answered with the error
\* document carrying its message.
C19_Witness ==
    \E c \in Calls :
        /\ ChatDone(c)
        /\ lastAnswer[c] = CompletionError(QuoteText)
        /\ ret[c].value.kind = "error"
        /\ ret[c].value.text = QuoteText

\* for each message of the two-call specification, the address
\* generate_response extracts from it and the handler it dispatches to when
\* it runs alone
AloneRow(m, a, h) == [message |-> m, address |-> a, handler |-> h]

AloneTable ==
    << AloneRow(Phrases[6] \o Address1, Address1, "TransactionHistory"),
       AloneRow(Phrases[7] \o Address1, Address1, "RiskAssessment"),
       AloneRow(Phrases[8] \o Address1, Address1, "WhaleAnalysis"),
       AloneRow(Phrases[10] \o Address1, Address1, "ContractVerification"),
       AloneRow(Phrases[3] \o Address2, Address2, "TokenAnalysis"),
       AloneRow(Phrases[1], None, "general") >>

AloneOf(m) == AloneTable[CHOOSE i \in DOMAIN AloneTable : AloneTable[i].message = m]

\* what generate_response returns when it runs alone with the message of
\* call c and the upstream answers call c received, on a service as
\* constructed
AloneReturn(c) ==
    LET h == AloneOf(message[c]).handler
        a == AloneOf(message[c]).address
    IN  IF h = "general"
        THEN GenerateResponseReturn(Return(HandleGeneralQuery(lastAnswer[c])))
        ELSE IF GatewayOpOf(h) = "none"
        THEN GenerateResponseReturn(Return(StaticDocument(h, a)))
        ELSE GenerateResponseReturn(Return(HandlerDocument(h,
                 GatewayStep(GatewayOpOf(h), a, Len(httpLog[c]), lastAnswer[c],
                             jsonErrorIsRequestException).result, a)))

\* the outbound calls generate_response makes when it runs alone with the
\* message of call c: one completion call with the constructed model name
\* on the general path, none otherwise
AloneCompletions(c) ==
    IF AloneOf(message[c]).handler = "general"
    THEN << [system |-> SystemPrompt, user |-> message[c],
             model |-> ConstructedService.current_model, timeout |-> <<>>] >>
    ELSE <<>>

\* C20: two generate_response calls on the one service, their steps
\* interleaved in any way, each return what the call returns alone with the
\* same message and the same upstream answers, and make the outbound calls
\* it makes alone; the fields of the service stay as constructed.
C20_CallsShareNoMutableState ==
    /\ service = ConstructedService
    /\ \A c \in Calls :
           entry[c] = "generate_response" =>
               /\ wallet[c] = AloneOf(message[c]).address
               /\ handler[c] = AloneOf(message[c]).handler
               /\ completions[c] = AloneCompletions(c)
               /\ pc[c] = "done" => ret[c] = AloneReturn(c)

\* C20 witness: two calls, one about a wallet and one a greeting whose
\* completion call raised, have both returned, each its own document.
C20_Witness ==
    \E c, d \in Calls :
        /\ ChatDone(c) /\ ChatDone(d)
        /\ handler[c] = "TokenAnalysis"
        /\ ret[c].value.kind = "wallet-analysis"
        /\ ret[c].value.address = Address2
        /\ handler[d] = "general"
        /\ lastAnswer[d].kind = "error"
        /\ ret[d].value.kind = "error"

\* len(response) of a returned value: the number of keys of a dict, the
\* number of characters of a str
ResponseLen(response) ==
    IF response.t = "dict" THEN Cardinality(response.keys) ELSE Len(response.v)

\* a finished generate_response call whose message is a question without
\* any 0x followed by 40 hex digits
GeneralQuestionDone(c) ==
    /\ ChatDone(c)
    /\ message[c] # None
    /\ ~HasAddress(message[c])

\* C21: generate_response called with a general question that holds no
\* wallet address returns a value of type str that is not empty, as
\* test_generate_response asserts.
C21_GeneralAnswerIsNonEmptyStr ==
    \A c \in Calls :
        GeneralQuestionDone(c) =>
            /\ ~ret[c].raised
            /\ ret[c].value.t = "str"
            /\ ResponseLen(ret[c].value) > 0

\* a finished get_wallet_balance call whose request was answered with
\* status 200 and a valid body of at least one token
BalanceOfHolderDone(c) ==
    /\ pc[c] = "done"
    /\ entry[c] = "get_wallet_balance"
    /\ ~BadBalanceAnswer(lastAnswer[c])
    /\ lastAnswer[c].status = 200
    /\ ~BalanceTry(lastAnswer[c]).raised
    /\ TokensOf(lastAnswer[c]) # <<>>

\* C22: get_wallet_balance(address=A) on a successful upstream answer for
\* a wallet that holds tokens returns a WalletBalanceResponse whose address
\* field is A and whose balances list is not empty, as
\* test_get_wallet_balance asserts.
C22_BalanceHasAddressAndBalances ==
    \A c \in Calls :
        BalanceOfHolderDone(c) =>
            /\ ~ret[c].raised
            /\ "address" \in DOMAIN ret[c].value
            /\ ret[c].value.address = wallet[c]
            /\ "balances" \in DOMAIN ret[c].value
            /\ ret[c].value.balances # <<>>

\* a risk payload that asserts nothing about the wallet: score zero, level
\* unknown, no factor
ZeroRiskPayload(value) ==
    /\ value.t = "dict"
    /\ DOMAIN value.v = {"overall_risk_score", "risk_level", "factors"}
    /\ value.v["overall_risk_score"] = JNum(0)
    /\ value.v["risk_level"] = JStr(<<"Unknown">>)
    /\ value.v["factors"] = JList(<<>>)

\* C23: when every candidate of get_risk_assessment fails, the operation
\* returns the empty, zero-valued payload: no risk score, level or factor is
\* asserted about the wallet.
C23_FailedRiskAssessmentIsZeroValued ==
    \A c \in Calls :
        (pc[c] = "done" /\ entry[c] = "get_risk_assessment" /\ AllRequestsFailed(c)) =>
            /\ ~ret[c].raised
            /\ ZeroRiskPayload(ret[c].value)

\* a chat request whose message is a text
TextRequest(c) == entry[c] \in {"generate_response", "chat"} /\ message[c] # None

\* C24: what _extract_wallet_address returns is none or a text that
\* is_valid_wallet_address accepts; the general-completion path is taken
\* exactly when it returns none, and no request is served with an address
\* that was extracted and found invalid.
C24_ExtractedAddressIsValid ==
    \A c \in Calls :
        TextRequest(c) =>
            /\ wallet[c] = None \/ IsValidWalletAddress(wallet[c])
            /\ handler[c] = "general" <=> wallet[c] = None
            /\ completions[c] # <<>> <=> wallet[c] = None
            /\ wallet[c] # None => handler[c] \in Intents

\* C24 witness: a message holding 0x and one hex digit too few had no
\* address extracted and was answered on the general path.
C24_Witness ==
    \E c \in Calls :
        /\ ChatDone(c)
        /\ Contains(message[c], <<"0","x">> \o Repeat("a", AddressHexDigits - 1))
        /\ wallet[c] = None
        /\ handler[c] = "general"
        /\ Len(completions[c]) = 1
        /\ ret[c].value.kind = "general-response"

\* position i of m starts 0x followed by more than 40 hex digits, and no
\* address starts left of it
LongHexRunAt(m, i) ==
    /\ HoldsAddressAt(m, i)
    /\ i + 42 <= Len(m)
    /\ m[i + 42] \in HexChars
    /\ \A j \in 1..(i - 1) : ~HoldsAddressAt(m, j)

\* C25: the extractor does not look at what follows a match: of 0x followed
\* by more than 40 hex digits the first 42 characters are extracted, pass
\* validation, and the request is served on the wallet path with that prefix
\* as the wallet address.
C25_HashPrefixIsTakenForAddress ==
    \A c \in Calls :
        TextRequest(c) =>
            \A i \in DOMAIN message[c] :
                LongHexRunAt(message[c], i) =>
                    /\ wallet[c] = SubSeq(message[c], i, i + 41)
                    /\ IsValidWalletAddress(wallet[c])
                    /\ handler[c] \in Intents
                    /\ completions[c] = <<>>
                    /\ (pc[c] = "done" /\ ReturnedDocument(c).kind # "error") =>
                           ReturnedDocument(c).address = SubSeq(message[c], i, i + 41)

\* C25 witness: a question about the history of a 64-digit transaction hash
\* was answered with the transaction history of the wallet named by the
\* first 40 digits of the hash.
C25_Witness ==
    \E c \in Calls :
        /\ ChatDone(c)
        /\ Contains(message[c], <<"0","x">> \o Repeat("f", 64))
        /\ wallet[c] = <<"0","x">> \o Repeat("f", AddressHexDigits)
        /\ handler[c] = "TransactionHistory"
        /\ httpLog[c] # <<>>
        /\ ret[c].value.kind = "transaction-history"
        /\ ret[c].value.address = <<"0","x">> \o Repeat("f", AddressHexDigits)

\* the lower-cased message holds no keyword of the Token, Nft,
\* TransactionHistory or Risk set
NoEarlierKeyword(lower) == MatchingSets(lower) \cap {1, 2, 3, 4} = {}

\* C26: with a valid address in the message, WhaleAnalysis is selected only
\* for a message that holds "whale" and no keyword of the Token, Nft,
\* TransactionHistory or Risk set; a message holding the whale keyword
\* "analyze whale" is handled as TokenAnalysis, never as WhaleAnalysis.
C26_AnalyzeWhaleIsShadowed ==
    \A c \in Calls :
        WalletPath(c) =>
            /\ handler[c] = "WhaleAnalysis" =>
                   LET lower == Lower(message[c]) IN
                   /\ Contains(lower, <<"w","h","a","l","e">>)
                   /\ NoEarlierKeyword(lower)
            /\ handler[c] # "TokenAnalysis" =>
                   ~Contains(Lower(message[c]),
                             <<"a","n","a","l","y","z","e"," ","w","h","a","l","e">>)
            /\ (pc[c] = "done" /\ handler[c] = "WhaleAnalysis") =>
                   ret[c].value.kind = "whale-analysis"

\* C26 witness: a message holding "analyze whale" and an address was
\* answered by the token handler.
C26_Witness ==
    \E c \in Calls :
        /\ ChatDone(c)
        /\ Contains(Lower(message[c]),
                    <<"a","n","a","l","y","z","e"," ","w","h","a","l","e">>)
        /\ wallet[c] = Address1
        /\ handler[c] = "TokenAnalysis"
        /\ op[c] = "get_wallet_balance"
        /\ ret[c].value.kind = "wallet-analysis"

ListOps == {"get_nft_holdings", "get_transaction_history"}

\* the answer is a 200 whose body is a JSON object or array
ObjectOrArray200(a) ==
    /\ a.kind = "response"
    /\ a.status = 200
    /\ a.body.json
    /\ a.body.value.t \in {"dict", "list"}

\* the call has returned and every request it made has been answered
NoFurtherRequest(c) ==
    /\ pc[c] = "done"
    /\ Len(httpLog[c]) = Len(replies[c])
    /\ ~ret[c].raised

\* C27: in get_nft_holdings and get_transaction_history a candidate that
\* answers 200 with a JSON object or array ends the call: the call returns
\* and no later candidate is requested, also when no item is extracted from
\* the body.
C27_First200BodyEndsListCall ==
    \A c \in Calls :
        op[c] \in ListOps =>
            /\ \A k \in DOMAIN replies[c] :
                   replies[c][k].json => k = Len(replies[c]) /\ Len(httpLog[c]) = k
            /\ (replies[c] # <<>> /\ ObjectOrArray200(lastAnswer[c])) =>
                   /\ NoFurtherRequest(c)
                   /\ entry[c] \in ListOps => ret[c].value.address = wallet[c]

\* C27 witness: the first NFT candidate answered 200 with an object from
\* which no item was extracted; the call returned the empty result after
\* that one request, three candidates unasked.
C27_Witness ==
    \E c \in Calls :
        /\ pc[c] = "done"
        /\ entry[c] = "get_nft_holdings"
        /\ ObjectOrArray200(lastAnswer[c])
        /\ lastAnswer[c].body.value = JDict([result |-> JList(<<Nft(PlainText)>>)])
        /\ Len(httpLog[c]) = 1
        /\ ret[c].value.total_count = 0
        /\ ret[c].value.nfts = JList(<<>>)

\* the item list of a result of a list operation
ItemsOf(o, value) ==
    IF o = "get_nft_holdings" THEN value.nfts ELSE value.transactions

\* C28: every value get_nft_holdings(A) or get_transaction_history(A)
\* returns, on the success path and on every fallback path, has the address
\* A and a total_count that is the number of entries of its item list.
C28_ListResultKeepsAddressAndCount ==
    \A c \in Calls :
        (pc[c] = "done" /\ entry[c] \in ListOps) =>
            /\ ~ret[c].raised
            /\ ret[c].value.address = wallet[c]
            /\ ~LenRaises(ItemsOf(entry[c], ret[c].value))
            /\ ret[c].value.total_count = PyLen(ItemsOf(entry[c], ret[c].value))

\* C28 witness: a transaction call for the second address whose third
\* candidate answered with three transactions returned them with the count
\* three and that address.
C28_Witness ==
    \E c \in Calls :
        /\ pc[c] = "done"
        /\ entry[c] = "get_transaction_history"
        /\ wallet[c] = Address2
        /\ Len(httpLog[c]) = 3
        /\ ret[c].value.address = Address2
        /\ ret[c].value.total_count = 3
        /\ Len(ret[c].value.transactions.v) = 3

\* C29: the two pathways are disjoint: a chat request that takes the wallet
\* path (an address was extracted) never calls the completion provider, and
\* one that takes the general path never calls a gateway operation and makes
\* no HTTP request, whatever the calls it does make are answered with.
C29_PathwaysAreDisjoint ==
    \A c \in Calls :
        entry[c] \in {"generate_response", "chat"} =>
            /\ (message[c] # None /\ wallet[c] # None) =>
                   handler[c] \in Intents /\ completions[c] = <<>>
            /\ handler[c] = "general" =>
                   op[c] = "none" /\ httpLog[c] = <<>> /\ replies[c] = <<>>
            /\ message[c] = None => completions[c] = <<>> /\ httpLog[c] = <<>>
            /\ ~(completions[c] # <<>> /\ httpLog[c] # <<>>)

\* C29 witness: a token analysis whose balance request timed out ended in
\* an error document without any completion call.
C29_Witness ==
    \E c \in Calls :
        /\ ChatDone(c)
        /\ handler[c] = "TokenAnalysis"
        /\ lastAnswer[c] = Timeout
        /\ ret[c].value.kind = "error"
        /\ Len(httpLog[c]) = 1
        /\ completions[c] = <<>>

\* the largest number of HTTP requests one generate_response call of each
\* handler makes
RequestLimit(h) ==
    CASE h = "TokenAnalysis"                       -> 1
      [] h \in {"NftAnalysis", "TransactionHistory"} -> 4
      [] OTHER                                     -> 0

\* the outbound calls of a generate_response call stay within their limits:
\* requests of one gateway operation only, at most RequestLimit of them, and
\* no completion call on the wallet path; exactly one completion call and no
\* request on the general path; a finished call has returned a document
WithinLimits(c) ==
    /\ Len(httpLog[c]) <= RequestLimit(handler[c])
    /\ Len(httpLog[c]) <= 4
    /\ \A k \in DOMAIN httpLog[c] :
           /\ op[c] \in GatewayOps
           /\ httpLog[c][k].url = EndpointsToTry(op[c])[k]
    /\ handler[c] = "general" => Len(completions[c]) = 1
    /\ handler[c] # "general" => completions[c] = <<>>
    /\ (pc[c] = "done" /\ handler[c] \in {"TokenAnalysis", "NftAnalysis", "TransactionHistory"})
           => Len(httpLog[c]) >= 1
    /\ pc[c] = "done" => ~ret[c].raised /\ ret[c].value.kind \in DocumentKinds

\* C30: provided every outbound call eventually returns or fails, every
\* generate_response call ends with a document, after at most one gateway
\* operation and at most 4 HTTP requests (1 for TokenAnalysis, at most 4 for
\* NftAnalysis and TransactionHistory, none for the other intents), or
\* exactly one completion request.
C30_TerminatesWithinLimits ==
    /\ [](\A c \in Calls : entry[c] = "generate_response" => WithinLimits(c))
    /\ \A c \in Calls :
           (entry[c] = "generate_response" /\ pc[c] # "done") ~> (pc[c] = "done")

\* C30 witness: an NFT analysis whose four candidates all failed has
\* returned its document after four requests.
C30_Witness ==
    \E c \in Calls :
        /\ ChatDone(c)
        /\ handler[c] = "NftAnalysis"
        /\ Len(httpLog[c]) = 4
        /\ AllRequestsFailed(c)
        /\ Len(replies[c]) = 4
        /\ ret[c].value.kind = "nft-empty"

=============================================================================
